---- MODULE Spec2Model ----
(***************************************************************************)
(* A model of the data layer (db.py) and of the request handlers (app.py)  *)
(* of the Pressboxd show-rating site: the show catalog, the rating, review *)
(* and vote ledgers and the read-side aggregation and ranking queries.     *)
(*                                                                         *)
(* Text is modelled as a sequence of character codes (ASCII), so that      *)
(* strip(), lower(), the regular expressions of norm_key and the LOWER()   *)
(* and ORDER BY of SQLite are computed character by character.             *)
(*                                                                         *)
(* The store is the SQLite database.  A table is a set of rows (records),  *)
(* except shows, whose AUTOINCREMENT id is the index of the row in a       *)
(* sequence (no code deletes a show).  Columns that no query of the        *)
(* repository ever reads (shows.created_ts, ratings.ts, review_votes.ts,   *)
(* roles.created_ts) are left out of the rows.                             *)
(***************************************************************************)
EXTENDS Integers, Sequences, FiniteSets, TLC

VARIABLES
  shows,    \* table shows: sequence of rows, shows[i] is the row with id i
  ratings,  \* table ratings: set of rows [show_id, user_id, rating_half]
  reviews,  \* table reviews: set of rows [show_id, user_id, review_text, ts]
  votes,    \* table review_votes: set of rows [show_id, review_user_id, voter_user_id, vote]
  clock,    \* the value now_ts() returns
  procs,    \* the requests in flight: per connection, its position and locals
  last,     \* the last completed call: its operation, arguments and result
  hist,     \* per table, show and user: the last call that stored the pair's
            \* row, when no call deleted the row since
  roles,    \* table roles: set of rows [id, name, slug, color]
  role_seq, \* the largest id AUTOINCREMENT has given a role
  user_roles, \* table user_roles: set of rows [user_id, role_id, assigned_ts,
            \* assigned_by_user_id]
  made,     \* the (user, role) pairs of user_roles in the order in which the
            \* calls that inserted the rows were made
  users     \* table users as registration fills it: set of rows [id,
            \* username, is_admin]

vars == <<shows, ratings, reviews, votes, clock, procs, last, hist,
          roles, role_seq, user_roles, made, users>>

-----------------------------------------------------------------------------
(* Bounds of the model *)

MaxShows == 2      \* shows the catalog may hold
MaxRoles == 3      \* roles AUTOINCREMENT may number
MaxTs == 1         \* the clock runs from 0 to MaxTs
MaxUsers == 2      \* the registrations that go through

-----------------------------------------------------------------------------
(* Optional values: Python's None, SQL's NULL *)

None == [some |-> FALSE]
Some(x) == [some |-> TRUE, v |-> x]

-----------------------------------------------------------------------------
(* Text: sequences of character codes *)

IsSpace(c) == c \in {9, 10, 11, 12, 13, 32}

IsUpper(c) == c \in 65..90

\* str.lower() / LOWER() on one ASCII character
LowerChar(c) == IF IsUpper(c) THEN c + 32 ELSE c

Lower(s) == [i \in 1..Len(s) |-> LowerChar(s[i])]

\* the first index from i on, and the last index down from i, of a
\* character that is not whitespace (Len(s) + 1 and 0 when there is none)
RECURSIVE FirstNonSpace(_, _)
FirstNonSpace(s, i) ==
  IF i > Len(s) THEN i
  ELSE IF IsSpace(s[i]) THEN FirstNonSpace(s, i + 1) ELSE i

RECURSIVE LastNonSpace(_, _)
LastNonSpace(s, i) ==
  IF i < 1 THEN i
  ELSE IF IsSpace(s[i]) THEN LastNonSpace(s, i - 1) ELSE i

\* the mutant of Strip: only the leading whitespace is dropped
Strip_left_only(s) == SubSeq(s, FirstNonSpace(s, 1), Len(s))

\* str.strip(): drop the leading and trailing whitespace
Strip(s) == SubSeq(s, FirstNonSpace(s, 1), LastNonSpace(s, Len(s)))

\* re.sub(r"\s+", " ", s): every maximal run of whitespace becomes one space
RECURSIVE CollapseSpaces(_)
CollapseSpaces(s) ==
  IF s = <<>> THEN <<>>
  ELSE IF IsSpace(Head(s))
       THEN IF Len(s) > 1 /\ IsSpace(s[2])
            THEN CollapseSpaces(Tail(s))
            ELSE <<32>> \o CollapseSpaces(Tail(s))
       ELSE <<Head(s)>> \o CollapseSpaces(Tail(s))

\* the characters re.sub(r"[^a-z0-9 \-]", "", s) keeps
IsKeyChar(c) == c \in 97..122 \/ c \in 48..57 \/ c = 32 \/ c = 45

RECURSIVE KeepKeyChars(_)
KeepKeyChars(s) ==
  IF s = <<>> THEN <<>>
  ELSE IF IsKeyChar(Head(s))
       THEN <<Head(s)>> \o KeepKeyChars(Tail(s))
       ELSE KeepKeyChars(Tail(s))

\* the mutant of norm: the key is not lower-cased
norm_keeps_case(s) == Strip(KeepKeyChars(CollapseSpaces(Strip(s))))

\* norm_key's inner norm(s)
norm(s) == Strip(KeepKeyChars(CollapseSpaces(Lower(Strip(s)))))

\* str(int(year)) for a year >= 0: its decimal digits
RECURSIVE Digits(_)
Digits(n) == IF n < 10 THEN <<48 + n>> ELSE Digits(n \div 10) \o <<48 + (n % 10)>>

\* f"{int(year)}|{norm(corps)}|{norm(title)}"
norm_key(year, corps, title) ==
  Digits(year) \o <<124>> \o norm(corps) \o <<124>> \o norm(title)

\* s < t in SQLite's BINARY collation: byte by byte, a proper prefix first
RECURSIVE StrLess(_, _)
StrLess(s, t) ==
  IF t = <<>> THEN FALSE
  ELSE IF s = <<>> THEN TRUE
  ELSE IF Head(s) # Head(t) THEN Head(s) < Head(t)
  ELSE StrLess(Tail(s), Tail(t))

\* (x or "").strip() or None
StripOrNone(x) ==
  IF ~x.some THEN None
  ELSE IF Strip(x.v) = <<>> THEN None ELSE Some(Strip(x.v))

-----------------------------------------------------------------------------
(* The inputs the requests draw from *)

\* the ids of the users the ledgers' requests come from: accounts that
\* exist, whose registration is not part of those behaviours
Users == {1, 2, 3}

\* the connections of the requests that run concurrently
Conns == {1, 2}

\* a connection with no request in flight
Idle == [pc |-> "idle"]

\* no poster, " p "
AddPosters == { None, Some(<<32, 112, 32>>) }

\* the (table, show, user) pairs whose last writing call hist records
HistKeys == {"ratings", "reviews"} \X (1..MaxShows) \X Users

-----------------------------------------------------------------------------
(* Table shows *)

ShowIds(sh) == DOMAIN sh

\* schema.sql is not among the sources: the UNIQUE constraint on
\* shows.norm_key is the one the specification requires of the schema and
\* the one add_show's handler of sqlite3.IntegrityError relies on.
UniqueNormKey(sh, id, key) == \A i \in ShowIds(sh) : i # id => sh[i].norm_key # key

\* SELECT id, poster_url FROM shows WHERE norm_key = ?  -> fetchone()
SelectShowByKey(sh, key) ==
  LET hit == {i \in ShowIds(sh) : sh[i].norm_key = key}
  IN IF hit = {} THEN 0 ELSE CHOOSE i \in hit : TRUE

\* the mutant of PosterEmpty: the poster of the stored row is not looked at
PosterEmpty_any(row) == TRUE

\* the poster_url of a row is NULL or blank
PosterEmpty(row) == ~row.poster_url.some \/ Strip(row.poster_url.v) = <<>>

ShowRow(title, corps, year, poster, key) ==
  [title |-> title, corps |-> corps, year |-> year, poster_url |-> poster,
   norm_key |-> key]

-----------------------------------------------------------------------------
(* add_show *)

\* what add_show(conn, year, corps, title, poster_url) does to table sh and
\* what it returns: (created, show_id, status); show_id 0 stands for None
add_show_result(sh, year, corps, title, poster_url) ==
  LET corps_s == Strip(corps)
      title_s == Strip(title)
      poster_s == StripOrNone(poster_url)
      key == norm_key(year, corps_s, title_s)
      row == SelectShowByKey(sh, key)
  IN IF corps_s = <<>> \/ title_s = <<>>
     THEN [shows |-> sh, created |-> FALSE, id |-> 0, msg |-> "Missing corps or title."]
     ELSE IF UniqueNormKey(sh, 0, key)
     THEN [shows |-> Append(sh, ShowRow(title_s, corps_s, year, poster_s, key)),
           created |-> TRUE, id |-> Len(sh) + 1, msg |-> "Inserted"]
     ELSE IF row # 0 /\ poster_s.some /\ PosterEmpty(sh[row])
     THEN [shows |-> [sh EXCEPT ![row].poster_url = poster_s],
           created |-> FALSE, id |-> row, msg |-> "Duplicate (poster updated)"]
     ELSE [shows |-> sh, created |-> FALSE, id |-> row, msg |-> "Duplicate"]

\* one call of add_show on a connection of its own
add_show(year, corps, title, poster_url) ==
  LET r == add_show_result(shows, year, corps, title, poster_url)
  IN /\ r.created => Len(shows) < MaxShows
     /\ shows' = r.shows
     /\ last' = [op |-> "add_show", year |-> year, corps |-> corps, title |-> title,
                 poster_url |-> poster_url, created |-> r.created, id |-> r.id,
                 msg |-> r.msg]
     /\ UNCHANGED <<ratings, reviews, votes, clock, procs, hist, roles, role_seq, user_roles, made, users>>

-----------------------------------------------------------------------------
(* The initial state: the schema just created, no request in flight *)

Init ==
  /\ shows = <<>>
  /\ ratings = {}
  /\ reviews = {}
  /\ votes = {}
  /\ clock = 0
  /\ procs = [p \in Conns |-> Idle]
  /\ last = [op |-> "none"]
  /\ hist = [k \in HistKeys |-> [op |-> "none"]]
  /\ roles = {}
  /\ role_seq = 0
  /\ user_roles = {}
  /\ made = <<>>
  /\ users = {}

-----------------------------------------------------------------------------
(* update_show *)

\* the mutant of update_show_write: the UPDATE leaves norm_key as it was
update_show_write_keeps_key(sh, show_id, year, corps_s, title_s, poster_s, new_key) ==
  IF show_id \in ShowIds(sh)
  THEN [sh EXCEPT ![show_id] =
          ShowRow(title_s, corps_s, year, poster_s, sh[show_id].norm_key)]
  ELSE sh

\* UPDATE shows SET title, corps, year, poster_url, norm_key WHERE id = ?
\* (a show_id that no row has updates nothing)
update_show_write(sh, show_id, year, corps_s, title_s, poster_s, new_key) ==
  IF show_id \in ShowIds(sh)
  THEN [sh EXCEPT ![show_id] = ShowRow(title_s, corps_s, year, poster_s, new_key)]
  ELSE sh

\* SELECT id FROM shows WHERE norm_key = ? AND id <> ?  -> a row was found
update_show_check(sh, show_id, new_key) ==
  \E i \in ShowIds(sh) : sh[i].norm_key = new_key /\ i # show_id

-----------------------------------------------------------------------------
(* Concurrent requests.  Each connection runs one request at a time; a     *)
(* step is the code up to and including its next SQL statement, which the  *)
(* store executes atomically.  SQLite keeps the write lock of a connection *)
(* whose INSERT failed until it commits or closes; the model lets the other*)
(* connection write in between as well, which only adds behaviours.        *)

Done(p, op, ok, id, key, msg) ==
  procs' = [procs EXCEPT ![p] =
              [pc |-> "done", op |-> op, ok |-> ok, id |-> id, key |-> key, msg |-> msg]]

\* add_show up to its INSERT: lines 54-71, or the IntegrityError caught
add_show_begin(p, year, corps, title, poster_url) ==
  LET corps_s == Strip(corps)
      title_s == Strip(title)
      poster_s == StripOrNone(poster_url)
      key == norm_key(year, corps_s, title_s)
  IN /\ procs[p].pc = "idle"
     /\ IF corps_s = <<>> \/ title_s = <<>>
        THEN /\ Done(p, "add_show", FALSE, 0, <<>>, "Missing corps or title.")
             /\ UNCHANGED shows
        ELSE IF UniqueNormKey(shows, 0, key)
        THEN /\ Len(shows) < MaxShows
             /\ shows' = Append(shows, ShowRow(title_s, corps_s, year, poster_s, key))
             /\ Done(p, "add_show", TRUE, Len(shows) + 1, key, "Inserted")
        ELSE /\ procs' = [procs EXCEPT ![p] =
                            [pc |-> "add_select", key |-> key, poster_s |-> poster_s]]
             /\ UNCHANGED shows
     /\ UNCHANGED <<ratings, reviews, votes, clock, last, hist, roles, role_seq, user_roles, made, users>>

\* the SELECT of the except branch and the test on its row: lines 75-76, 80
add_show_select(p) ==
  LET row == SelectShowByKey(shows, procs[p].key)
  IN /\ procs[p].pc = "add_select"
     /\ IF row # 0 /\ procs[p].poster_s.some /\ PosterEmpty(shows[row])
        THEN procs' = [procs EXCEPT ![p] =
                         [pc |-> "add_update", key |-> procs[p].key,
                          poster_s |-> procs[p].poster_s, row |-> row]]
        ELSE Done(p, "add_show", FALSE, row, procs[p].key, "Duplicate")
     /\ UNCHANGED <<shows, ratings, reviews, votes, clock, last, hist, roles, role_seq, user_roles, made, users>>

\* UPDATE shows SET poster_url = ? WHERE id = ?: lines 77-79
add_show_update(p) ==
  /\ procs[p].pc = "add_update"
  /\ shows' = [shows EXCEPT ![procs[p].row].poster_url = procs[p].poster_s]
  /\ Done(p, "add_show", FALSE, procs[p].row, procs[p].key, "Duplicate (poster updated)")
  /\ UNCHANGED <<ratings, reviews, votes, clock, last, hist, roles, role_seq, user_roles, made, users>>

\* admin_edit_show_post up to update_show's duplicate pre-check: the handler
\* answers 404 for a show that does not exist (app.py, lines 319-320), then
\* update_show validates and checks (db.py, lines 216-232)
update_show_begin(p, show_id, year, corps, title, poster_url) ==
  LET corps_s == Strip(corps)
      title_s == Strip(title)
      poster_s == StripOrNone(poster_url)
      new_key == norm_key(year, corps_s, title_s)
  IN /\ procs[p].pc = "idle"
     /\ IF show_id \notin ShowIds(shows)
        THEN Done(p, "update_show", FALSE, show_id, <<>>, "404")
        ELSE IF corps_s = <<>> \/ title_s = <<>>
        THEN Done(p, "update_show", FALSE, show_id, <<>>, "ValueError: missing")
        ELSE IF update_show_check(shows, show_id, new_key)
        THEN Done(p, "update_show", FALSE, show_id, new_key, "ValueError: duplicate")
        ELSE procs' = [procs EXCEPT ![p] =
                         [pc |-> "update_write", show_id |-> show_id, year |-> year,
                          corps_s |-> corps_s, title_s |-> title_s,
                          poster_s |-> poster_s, key |-> new_key]]
     /\ UNCHANGED <<shows, ratings, reviews, votes, clock, last, hist, roles, role_seq, user_roles, made, users>>

\* the UPDATE of update_show, lines 234-242: the store refuses it with
\* sqlite3.IntegrityError when another row holds the new norm_key
update_show_commit(p) ==
  LET q == procs[p]
  IN /\ q.pc = "update_write"
     /\ IF q.show_id \in ShowIds(shows) /\ ~UniqueNormKey(shows, q.show_id, q.key)
        THEN /\ Done(p, "update_show", FALSE, q.show_id, q.key, "IntegrityError")
             /\ UNCHANGED shows
        ELSE /\ shows' = update_show_write(shows, q.show_id, q.year, q.corps_s,
                                           q.title_s, q.poster_s, q.key)
             /\ Done(p, "update_show", TRUE, q.show_id, q.key, "updated")
     /\ UNCHANGED <<ratings, reviews, votes, clock, last, hist, roles, role_seq, user_roles, made, users>>

\* the handler closes its connection and answers
close(p) ==
  /\ procs[p].pc = "done"
  /\ procs' = [procs EXCEPT ![p] = Idle]
  /\ UNCHANGED <<shows, ratings, reviews, votes, clock, last, hist, roles, role_seq, user_roles, made, users>>

\* "a", "A ", "b", ""
RaceNames == { <<97>>, <<65, 32>>, <<98>>, <<>> }

NextRace ==
  \E p \in Conns :
    \/ \E title \in RaceNames, poster_url \in AddPosters :
         add_show_begin(p, 2017, <<99>>, title, poster_url)
    \/ add_show_select(p)
    \/ add_show_update(p)
    \/ \E show_id \in 1..MaxShows, title \in RaceNames, poster_url \in AddPosters :
         update_show_begin(p, show_id, 2017, <<99>>, title, poster_url)
    \/ update_show_commit(p)
    \/ close(p)

SpecRace == Init /\ [][NextRace]_vars

\* C1, first half: no two stored shows share a norm_key, whether the stored
\* column or the key of the stored year, corps and title.
C1_NoSharedNormKey ==
  \A i, j \in ShowIds(shows) :
    i # j =>
      /\ shows[i].norm_key # shows[j].norm_key
      /\ norm_key(shows[i].year, shows[i].corps, shows[i].title)
           # norm_key(shows[j].year, shows[j].corps, shows[j].title)

\* C1, second half: a write that completes with success has stored its key
\* in its show and in no other; a racing write to a key another show holds
\* ends in an error instead.
C1_WriteSucceedsAlone ==
  \A p \in Conns :
    (procs[p].pc # "done" /\ procs'[p].pc = "done" /\ procs'[p].ok) =>
      /\ procs'[p].id \in ShowIds(shows')
      /\ \A i \in ShowIds(shows') :
           shows'[i].norm_key = procs'[p].key <=> i = procs'[p].id

\* C1: under any interleaving of add_show and update_show requests no two
\* stored shows share a norm_key, and of the writes to one norm_key only
\* the one that stores it succeeds.
C1_UniqueNormKey == []C1_NoSharedNormKey /\ [][C1_WriteSucceedsAlone]_vars

\* an update_show passed its pre-check, another request then stored the
\* same key, and the update ended in the store's IntegrityError
C1_Witness ==
  \E p \in Conns :
    /\ procs[p].pc = "done"
    /\ procs[p].op = "update_show"
    /\ procs[p].msg = "IntegrityError"
    /\ \E i \in ShowIds(shows) : i # procs[p].id /\ shows[i].norm_key = procs[p].key

-----------------------------------------------------------------------------
(* SpecAdd: calls of add_show, one after the other *)

\* "b", " B"
AddCorps == { <<98>>, <<32, 66>> }

\* "ab", "AB ", "a  b", "A b", "a!b", ""
AddTitles ==
  { <<97, 98>>, <<65, 66, 32>>, <<97, 32, 32, 98>>, <<65, 32, 98>>,
    <<97, 33, 98>>, <<>> }

NextAdd ==
  \E year \in {2017}, corps \in AddCorps, title \in AddTitles, poster_url \in AddPosters :
    add_show(year, corps, title, poster_url)

SpecAdd == Init /\ [][NextAdd]_vars

\* what two texts that differ only in letter case and in surrounding or
\* repeated whitespace have in common
CaseSpaceFold(s) == CollapseSpaces(Lower(Strip(s)))

\* the stored show i is the triple (year, corps, title) up to case and whitespace
SameTriple(i, year, corps, title) ==
  /\ shows[i].year = year
  /\ CaseSpaceFold(shows[i].corps) = CaseSpaceFold(corps)
  /\ CaseSpaceFold(shows[i].title) = CaseSpaceFold(title)

\* the ids stored before the last add_show
IdsBeforeLast == IF last.created THEN 1..(Len(shows) - 1) ELSE 1..Len(shows)

\* C2: an add_show of a valid triple that an earlier add_show stored up to
\* letter case and whitespace reports created = FALSE with the id of that
\* show, and that show is the only stored show with the triple and its key.
C2_DuplicateAddShow ==
  (last.op = "add_show" /\ Strip(last.corps) # <<>> /\ Strip(last.title) # <<>>) =>
    \A i \in IdsBeforeLast :
      SameTriple(i, last.year, last.corps, last.title) =>
        /\ ~last.created
        /\ last.id = i
        /\ {j \in ShowIds(shows) :
              SameTriple(j, last.year, last.corps, last.title)} = {i}
        /\ {j \in ShowIds(shows) :
              shows[j].norm_key = norm_key(last.year, last.corps, last.title)} = {i}

\* the second add_show differed from the stored show in case or whitespace
C2_Witness ==
  /\ last.op = "add_show"
  /\ ~last.created
  /\ last.id = 2
  /\ shows[2].title # Strip(last.title)
  /\ shows[2].corps # Strip(last.corps)

-----------------------------------------------------------------------------
(* set_review_vote *)

VoteRow(show_id, review_user_id, voter_user_id, vote) ==
  [show_id |-> show_id, review_user_id |-> review_user_id,
   voter_user_id |-> voter_user_id, vote |-> vote]

\* the rows of review_votes with the key (show_id, review_user_id, voter_user_id)
VoteRows(vt, show_id, review_user_id, voter_user_id) ==
  {r \in vt : /\ r.show_id = show_id
              /\ r.review_user_id = review_user_id
              /\ r.voter_user_id = voter_user_id}

\* SELECT vote FROM review_votes WHERE <key>  -> fetchone()
vote_select(vt, show_id, review_user_id, voter_user_id) ==
  LET hit == VoteRows(vt, show_id, review_user_id, voter_user_id)
  IN IF hit = {} THEN None ELSE Some((CHOOSE r \in hit : TRUE).vote)

\* the FOREIGN KEYs of review_votes, enforced by PRAGMA foreign_keys = ON
vote_foreign_keys(sh, show_id, review_user_id, voter_user_id) ==
  /\ show_id \in ShowIds(sh)
  /\ review_user_id \in Users
  /\ voter_user_id \in Users

\* the mutant of set_review_vote_result: the same vote again is kept
set_review_vote_no_toggle(vt, sh, show_id, review_user_id, voter_user_id, vote) ==
  LET v == IF vote > 0 THEN 1 ELSE -1
      cur == vote_select(vt, show_id, review_user_id, voter_user_id)
      mine == VoteRows(vt, show_id, review_user_id, voter_user_id)
  IN IF ~cur.some
     THEN IF vote_foreign_keys(sh, show_id, review_user_id, voter_user_id)
          THEN [votes |-> vt \cup {VoteRow(show_id, review_user_id, voter_user_id, v)},
                res |-> "ok"]
          ELSE [votes |-> vt, res |-> "IntegrityError"]
     ELSE [votes |-> (vt \ mine) \cup {[r EXCEPT !.vote = v] : r \in mine},
           res |-> "ok"]

\* what set_review_vote does to table vt: INSERT when the voter has no row,
\* DELETE when the row holds the same vote, UPDATE when it holds the other
set_review_vote_result(vt, sh, show_id, review_user_id, voter_user_id, vote) ==
  LET v == IF vote > 0 THEN 1 ELSE -1
      cur == vote_select(vt, show_id, review_user_id, voter_user_id)
      mine == VoteRows(vt, show_id, review_user_id, voter_user_id)
  IN IF ~cur.some
     THEN IF vote_foreign_keys(sh, show_id, review_user_id, voter_user_id)
          THEN [votes |-> vt \cup {VoteRow(show_id, review_user_id, voter_user_id, v)},
                res |-> "ok"]
          ELSE [votes |-> vt, res |-> "IntegrityError"]
     ELSE IF cur.v = v
     THEN [votes |-> vt \ mine, res |-> "ok"]
     ELSE [votes |-> (vt \ mine) \cup {[r EXCEPT !.vote = v] : r \in mine},
           res |-> "ok"]

\* one call of set_review_vote on a connection of its own
set_review_vote(show_id, review_user_id, voter_user_id, vote) ==
  LET r == set_review_vote_result(votes, shows, show_id, review_user_id,
                                  voter_user_id, vote)
  IN /\ votes' = r.votes
     /\ last' = [op |-> "set_review_vote", show_id |-> show_id,
                 review_user_id |-> review_user_id,
                 voter_user_id |-> voter_user_id, vote |-> vote, res |-> r.res]
     /\ UNCHANGED <<shows, ratings, reviews, clock, procs, hist, roles, role_seq, user_roles, made, users>>

-----------------------------------------------------------------------------
(* SpecVote: shows are added and votes are set, one call after the other *)

\* "a", "b", "c"
SeedTitles == { <<97>>, <<98>>, <<99>> }

\* the next show of a catalog that holds the shows "a", "b", "c" in that order
seed_show ==
  \E title \in SeedTitles :
    /\ title = <<97 + Len(shows)>>
    /\ add_show(2017, <<99>>, title, None)

\* the votes a request may carry: down, up, and values set_review_vote maps to them
VoteInputs == {-1, 1, 0, 2}

NextVote ==
  \/ seed_show
  \/ \E show_id \in 1..MaxShows, voter_user_id \in {1, 2}, vote \in VoteInputs :
       set_review_vote(show_id, 1, voter_user_id, vote)

SpecVote == Init /\ [][NextVote]_vars

\* the vote a request for vote v asks for
RequestedVote(v) == IF v > 0 THEN 1 ELSE -1

\* C3, as one step: a set_review_vote for vote v on the key of an existing
\* show moves that key from no row to a row with v, from a row with v to no
\* row, from a row with -v to that row with v, and changes no other key.
C3_ToggleStep ==
  (last'.op = "set_review_vote" /\ last'.show_id \in ShowIds(shows)) =>
    LET v == RequestedVote(last'.vote)
        before == VoteRows(votes, last'.show_id, last'.review_user_id,
                           last'.voter_user_id)
        after == VoteRows(votes', last'.show_id, last'.review_user_id,
                          last'.voter_user_id)
        row == VoteRow(last'.show_id, last'.review_user_id, last'.voter_user_id, v)
    IN /\ before = {} => after = {row}
       /\ before = {row} => after = {}
       /\ before = {[row EXCEPT !.vote = -v]} => after = {row}
       /\ Cardinality(before) <= 1
       /\ votes \ before = votes' \ after

\* C3: every set_review_vote follows the toggle table.
C3_ToggleTable == [][C3_ToggleStep]_vars

\* a key was voted up twice and has no row, while another key keeps its row
C3_Witness ==
  /\ last.op = "set_review_vote"
  /\ last.vote = 1
  /\ VoteRows(votes, last.show_id, last.review_user_id, last.voter_user_id) = {}
  /\ \E r \in votes : r.vote = -1
  /\ \E r \in votes : r.vote = 1

-----------------------------------------------------------------------------
(* Table ratings: upsert_rating, delete_rating, user_rating_for_show *)

RatingRow(show_id, user_id, rating_half) ==
  [show_id |-> show_id, user_id |-> user_id, rating_half |-> rating_half]

\* the rows of ratings with the key (show_id, user_id)
RatingRows(rt, show_id, user_id) ==
  {r \in rt : r.show_id = show_id /\ r.user_id = user_id}

Min(a, b) == IF a < b THEN a ELSE b
Max(a, b) == IF a > b THEN a ELSE b

\* the mutant of clamp_rating: the value is stored as given
clamp_rating_off(rating_half) == rating_half

\* rh = max(0, min(10, int(rating_half)))
clamp_rating(rating_half) == Max(0, Min(10, rating_half))

\* schema.sql is not among the sources: ratings references shows and users
\* (the specification's cascade from shows and users to their dependents)
rating_foreign_keys(sh, show_id, user_id) ==
  show_id \in ShowIds(sh) /\ user_id \in Users

\* the mutant of upsert_rating_rows: a plain INSERT, without ON CONFLICT
upsert_rating_rows_plain_insert(rt, show_id, user_id, rh) ==
  rt \cup {RatingRow(show_id, user_id, rh)}

\* INSERT INTO ratings ... ON CONFLICT(show_id, user_id) DO UPDATE SET
\* rating_half = excluded.rating_half
upsert_rating_rows(rt, show_id, user_id, rh) ==
  LET mine == RatingRows(rt, show_id, user_id)
  IN IF mine = {}
     THEN rt \cup {RatingRow(show_id, user_id, rh)}
     ELSE (rt \ mine) \cup {[r EXCEPT !.rating_half = rh] : r \in mine}

\* what upsert_rating does to table rt
upsert_rating_result(rt, sh, show_id, user_id, rating_half) ==
  LET rh == clamp_rating(rating_half)
  IN IF rating_foreign_keys(sh, show_id, user_id)
     THEN [ratings |-> upsert_rating_rows(rt, show_id, user_id, rh), res |-> "ok"]
     ELSE [ratings |-> rt, res |-> "IntegrityError"]

\* one call of upsert_rating on a connection of its own
upsert_rating(show_id, user_id, rating_half) ==
  LET r == upsert_rating_result(ratings, shows, show_id, user_id, rating_half)
  IN /\ ratings' = r.ratings
     /\ hist' = IF r.res = "ok"
                THEN [hist EXCEPT ![<<"ratings", show_id, user_id>>] =
                        [op |-> "upsert", value |-> rating_half]]
                ELSE hist
     /\ last' = [op |-> "upsert_rating", res |-> r.res]
     /\ UNCHANGED <<shows, reviews, votes, clock, procs, roles, role_seq, user_roles, made, users>>

\* the mutant of delete_rating_rows: the DELETE forgets the user
delete_rating_rows_any_user(rt, show_id, user_id) ==
  {r \in rt : r.show_id # show_id}

\* DELETE FROM ratings WHERE show_id = ? AND user_id = ?
delete_rating_rows(rt, show_id, user_id) ==
  rt \ RatingRows(rt, show_id, user_id)

\* one call of delete_rating on a connection of its own
delete_rating(show_id, user_id) ==
  /\ ratings' = delete_rating_rows(ratings, show_id, user_id)
  /\ hist' = [hist EXCEPT ![<<"ratings", show_id, user_id>>] = [op |-> "none"]]
  /\ last' = [op |-> "delete_rating"]
  /\ UNCHANGED <<shows, reviews, votes, clock, procs, roles, role_seq, user_roles, made, users>>

\* SELECT rating_half FROM ratings WHERE show_id = ? AND user_id = ? -> fetchone()
user_rating_for_show(rt, show_id, user_id) ==
  LET hit == RatingRows(rt, show_id, user_id)
  IN IF hit = {} THEN None ELSE Some((CHOOSE r \in hit : TRUE).rating_half)

-----------------------------------------------------------------------------
(* list_shows and show_detail: each show with its rating statistics *)

\* a fraction num / den with den > 0: the REAL values of AVG(...) / 2.0
Rat(num, den) == [num |-> num, den |-> den]

CmpInt(a, b) == IF a < b THEN -1 ELSE IF a > b THEN 1 ELSE 0

CmpRat(a, b) == CmpInt(a.num * b.den, b.num * a.den)

\* s < t, s = t, s > t in SQLite's BINARY collation
CmpStr(s, t) == IF StrLess(s, t) THEN -1 ELSE IF StrLess(t, s) THEN 1 ELSE 0

\* the first comparison of an ORDER BY chain that tells two rows apart
RECURSIVE FirstNonZero(_)
FirstNonZero(cs) ==
  IF cs = <<>> THEN 0
  ELSE IF Head(cs) # 0 THEN Head(cs) ELSE FirstNonZero(Tail(cs))

\* SUM(r.rating_half) over a set of rating rows
RECURSIVE SumHalf(_)
SumHalf(rows) ==
  IF rows = {} THEN 0
  ELSE LET r == CHOOSE x \in rows : TRUE
       IN r.rating_half + SumHalf(rows \ {r})

\* the rows of ratings that LEFT JOIN ratings r ON r.show_id = s.id gives show s
JoinedRatings(rt, show_id) == {r \in rt : r.show_id = show_id}

\* the mutant of avg_rating: AVG(...) is not halved
avg_rating_not_halved(rows) ==
  IF rows = {} THEN Rat(0, 2) ELSE Rat(SumHalf(rows), Cardinality(rows))

\* (COALESCE(AVG(r.rating_half), 0.0) / 2.0) AS avg_rating
avg_rating(rows) ==
  IF rows = {} THEN Rat(0, 2) ELSE Rat(SumHalf(rows), 2 * Cardinality(rows))

\* the mutant of cnt: COUNT(*), which counts the row of a show without ratings
cnt_star(rows) == IF rows = {} THEN 1 ELSE Cardinality(rows)

\* COUNT(r.rating_half) AS cnt
cnt(rows) == Cardinality(rows)

\* SELECT s.*, avg_rating, cnt ... GROUP BY s.id: the row of show id
StatsRow(sh, rt, id) ==
  [id |-> id, title |-> sh[id].title, corps |-> sh[id].corps, year |-> sh[id].year,
   poster_url |-> sh[id].poster_url, norm_key |-> sh[id].norm_key,
   avg_rating |-> avg_rating(JoinedRatings(rt, id)),
   cnt |-> cnt(JoinedRatings(rt, id))]

\* show_detail(conn, show_id): the row, or None
show_detail(sh, rt, show_id) ==
  IF show_id \in ShowIds(sh) THEN Some(StatsRow(sh, rt, show_id)) ELSE None

\* CASE WHEN cnt = 0 THEN 1 ELSE 0 END
Unrated(row) == IF row.cnt = 0 THEN 1 ELSE 0

\* the mutant of list_shows_order: top and bottom leave out the unrated-last key
list_shows_order_no_unrated_key(sort, a, b) ==
  IF sort = "corps"
  THEN << CmpStr(Lower(a.corps), Lower(b.corps)), CmpInt(b.year, a.year),
          CmpStr(Lower(a.title), Lower(b.title)) >>
  ELSE IF sort = "top"
  THEN << CmpRat(b.avg_rating, a.avg_rating),
          CmpInt(b.cnt, a.cnt), CmpInt(b.year, a.year),
          CmpStr(Lower(a.corps), Lower(b.corps)),
          CmpStr(Lower(a.title), Lower(b.title)) >>
  ELSE IF sort = "bottom"
  THEN << CmpRat(a.avg_rating, b.avg_rating),
          CmpInt(b.cnt, a.cnt), CmpInt(b.year, a.year),
          CmpStr(Lower(a.corps), Lower(b.corps)),
          CmpStr(Lower(a.title), Lower(b.title)) >>
  ELSE IF sort = "year_asc"
  THEN << CmpInt(a.year, b.year), CmpStr(Lower(a.corps), Lower(b.corps)),
          CmpStr(Lower(a.title), Lower(b.title)) >>
  ELSE << CmpInt(b.year, a.year), CmpStr(Lower(a.corps), Lower(b.corps)),
          CmpStr(Lower(a.title), Lower(b.title)) >>

\* the ORDER BY of list_shows for a sort value: the comparisons of rows a
\* and b, key by key (negative: a first)
list_shows_order(sort, a, b) ==
  IF sort = "corps"
  THEN << CmpStr(Lower(a.corps), Lower(b.corps)), CmpInt(b.year, a.year),
          CmpStr(Lower(a.title), Lower(b.title)) >>
  ELSE IF sort = "top"
  THEN << CmpInt(Unrated(a), Unrated(b)), CmpRat(b.avg_rating, a.avg_rating),
          CmpInt(b.cnt, a.cnt), CmpInt(b.year, a.year),
          CmpStr(Lower(a.corps), Lower(b.corps)),
          CmpStr(Lower(a.title), Lower(b.title)) >>
  ELSE IF sort = "bottom"
  THEN << CmpInt(Unrated(a), Unrated(b)), CmpRat(a.avg_rating, b.avg_rating),
          CmpInt(b.cnt, a.cnt), CmpInt(b.year, a.year),
          CmpStr(Lower(a.corps), Lower(b.corps)),
          CmpStr(Lower(a.title), Lower(b.title)) >>
  ELSE IF sort = "year_asc"
  THEN << CmpInt(a.year, b.year), CmpStr(Lower(a.corps), Lower(b.corps)),
          CmpStr(Lower(a.title), Lower(b.title)) >>
  ELSE << CmpInt(b.year, a.year), CmpStr(Lower(a.corps), Lower(b.corps)),
          CmpStr(Lower(a.title), Lower(b.title)) >>

\* the rows in ORDER BY order; rows the chain does not tell apart come in
\* an order the store picks
RECURSIVE OrderShows(_, _)
OrderShows(rows, sort) ==
  IF rows = {} THEN <<>>
  ELSE LET first == CHOOSE a \in rows :
                      \A b \in rows : FirstNonZero(list_shows_order(sort, b, a)) >= 0
       IN <<first>> \o OrderShows(rows \ {first}, sort)

\* the WHERE clause of list_shows
list_shows_where(row, year_filter, corps_filter) ==
  /\ year_filter.some => row.year = year_filter.v
  /\ (corps_filter.some /\ corps_filter.v # <<>>) =>
       Lower(row.corps) = Lower(Strip(corps_filter.v))

\* list_shows(conn, sort, year_filter, corps_filter)
list_shows(sh, rt, sort, year_filter, corps_filter) ==
  OrderShows({row \in {StatsRow(sh, rt, id) : id \in ShowIds(sh)} :
                list_shows_where(row, year_filter, corps_filter)}, sort)

-----------------------------------------------------------------------------
(* SpecRate: shows are added, ratings are stored and deleted *)

\* the half-star values the calls of upsert_rating carry
RateInputs == {7, 9, 11}

\* the users who rate
Raters == {1, 2}

NextRate ==
  \/ seed_show
  \/ \E show_id \in 1..MaxShows, user_id \in Raters, rating_half \in RateInputs :
       upsert_rating(show_id, user_id, rating_half)
  \/ \E show_id \in 1..MaxShows, user_id \in Raters :
       delete_rating(show_id, user_id)

SpecRate == Init /\ [][NextRate]_vars

\* a value brought to the nearest bound of [0, 10]
NearestInRange(v) == IF v < 0 THEN 0 ELSE IF v > 10 THEN 10 ELSE v

\* C4: there is at most one rating row per (show, user), and ratingFor is
\* the clamped value of the pair's most recent upsertRating when no
\* deleteRating of the pair followed it, and absent otherwise.
C4_OneRatingPerPair ==
  \A show_id \in ShowIds(shows), user_id \in Users :
    LET h == hist[<<"ratings", show_id, user_id>>]
    IN /\ Cardinality(RatingRows(ratings, show_id, user_id)) <= 1
       /\ user_rating_for_show(ratings, show_id, user_id) =
            IF h.op = "upsert" THEN Some(NearestInRange(h.value)) ELSE None

\* a pair was rated, rated again with another value, and one row holds the
\* second value; another pair's rating was deleted
C4_Witness ==
  /\ \E show_id \in ShowIds(shows) :
       /\ RatingRows(ratings, show_id, 1) = {RatingRow(show_id, 1, 9)}
       /\ hist[<<"ratings", show_id, 1>>] = [op |-> "upsert", value |-> 9]
       /\ RatingRows(ratings, show_id, 2) = {RatingRow(show_id, 2, 10)}
  /\ \E show_id \in ShowIds(shows) :
       /\ last.op = "delete_rating"
       /\ hist[<<"ratings", show_id, 2>>].op = "none"
       /\ user_rating_for_show(ratings, show_id, 2) = None

\* the sort values a request may carry
Sorts == {"year_desc", "year_asc", "corps", "top", "bottom", "year", "newest"}

\* the row listShows reports for a show, under a sort value
ListedRow(sort, show_id) ==
  LET rows == list_shows(shows, ratings, sort, None, None)
  IN rows[CHOOSE i \in 1..Len(rows) : rows[i].id = show_id]

\* the sum of the ratings of a show, user by user
RECURSIVE SumByUser(_, _)
SumByUser(show_id, us) ==
  IF us = {} THEN 0
  ELSE LET u == CHOOSE x \in us : TRUE
           mine == user_rating_for_show(ratings, show_id, u)
       IN (IF mine.some THEN mine.v ELSE 0) + SumByUser(show_id, us \ {u})

\* row reports count n and the average sum / (2 n), or 0.0 when n = 0
HasStats(row, n, sum) ==
  /\ row.cnt = n
  /\ row.avg_rating.den > 0
  /\ IF n = 0
     THEN row.avg_rating.num = 0
     ELSE row.avg_rating.num * 2 * n = sum * row.avg_rating.den
  /\ 0 <= row.avg_rating.num
  /\ row.avg_rating.num <= 5 * row.avg_rating.den

\* C6: for every show, listShows (under every sort value) and showDetail
\* report the number of its rating rows as count and
\* (sum of their rating_half) / (2 * count), or 0.0, as avg_rating, which
\* lies in [0, 5].
C6_SameStatistics ==
  \A show_id \in ShowIds(shows) :
    LET n == Cardinality({r \in ratings : r.show_id = show_id})
        sum == SumByUser(show_id, Users)
    IN /\ show_detail(shows, ratings, show_id).some
       /\ HasStats(show_detail(shows, ratings, show_id).v, n, sum)
       /\ \A sort \in Sorts :
            /\ Len(list_shows(shows, ratings, sort, None, None)) = Len(shows)
            /\ HasStats(ListedRow(sort, show_id), n, sum)

\* a show rated 9 and 7 is reported with count 2 and avg_rating 4.0, next
\* to a show without ratings
C6_Witness ==
  /\ \E show_id \in ShowIds(shows) :
       /\ {r.rating_half : r \in JoinedRatings(ratings, show_id)} = {7, 9}
       /\ show_detail(shows, ratings, show_id).v.cnt = 2
       /\ show_detail(shows, ratings, show_id).v.avg_rating = Rat(16, 4)
       /\ ListedRow("top", show_id).avg_rating = Rat(16, 4)
  /\ \E show_id \in ShowIds(shows) :
       /\ JoinedRatings(ratings, show_id) = {}
       /\ show_detail(shows, ratings, show_id).v.avg_rating = Rat(0, 2)

-----------------------------------------------------------------------------
(* rate_show: the request POST /show/<show_id>/rate of a logged-in user *)

\* str.isdigit() on ASCII text
IsDigits(s) == s # <<>> /\ \A i \in 1..Len(s) : s[i] \in 48..57

\* int(s) for a text of digits
RECURSIVE ParseInt(_)
ParseInt(s) ==
  IF s = <<>> THEN 0 ELSE 10 * ParseInt(SubSeq(s, 1, Len(s) - 1)) + (s[Len(s)] - 48)

\* the mutant of rate_show_outcome: the handler leaves the range to upsert_rating
rate_show_outcome_no_range_check(sh, rt, show_id, form) ==
  LET rating_half == Strip(form)
  IN IF ~IsDigits(rating_half) THEN "Rating must be in half-star steps."
     ELSE IF ~show_detail(sh, rt, show_id).some THEN "404"
     ELSE "Saved your rating."

\* what rate_show answers: the message it flashes, or 404
rate_show_outcome(sh, rt, show_id, form) ==
  LET rating_half == Strip(form)
  IN IF ~IsDigits(rating_half) THEN "Rating must be in half-star steps."
     ELSE IF ParseInt(rating_half) < 0 \/ ParseInt(rating_half) > 10
     THEN "Rating must be between 0 and 5 stars (half steps)."
     ELSE IF ~show_detail(sh, rt, show_id).some THEN "404"
     ELSE "Saved your rating."

\* one request: only the outcome "Saved your rating." calls upsert_rating
rate_show(show_id, uid, form) ==
  LET out == rate_show_outcome(shows, ratings, show_id, form)
      rh == ParseInt(Strip(form))
  IN /\ last' = [op |-> "rate_show", show_id |-> show_id, uid |-> uid,
                 form |-> form, res |-> out]
     /\ IF out = "Saved your rating."
        THEN /\ ratings' = upsert_rating_result(ratings, shows, show_id, uid, rh).ratings
             /\ hist' = [hist EXCEPT ![<<"ratings", show_id, uid>>] =
                           [op |-> "upsert", value |-> rh]]
        ELSE UNCHANGED <<ratings, hist>>
     /\ UNCHANGED <<shows, reviews, votes, clock, procs, roles, role_seq, user_roles, made, users>>

-----------------------------------------------------------------------------
(* SpecRateRequest: ratings come through rate_show and through upsert_rating *)

\* "9", "11", "-1", " 10 ", "", "x"
RateForms == { <<57>>, <<49, 49>>, <<45, 49>>, <<32, 49, 48, 32>>, <<>>, <<120>> }

\* the values upsert_rating is called with directly
DirectRateInputs == {-1, 5, 11}

NextRateRequest ==
  \/ seed_show
  \/ \E show_id \in 1..MaxShows, form \in RateForms : rate_show(show_id, 1, form)
  \/ \E show_id \in 1..MaxShows, rating_half \in DirectRateInputs :
       upsert_rating(show_id, 1, rating_half)

SpecRateRequest == Init /\ [][NextRateRequest]_vars

\* the number a form value stands for: digits with an optional minus sign
FormNumber(form) ==
  LET t == Strip(form)
  IN IF IsDigits(t) THEN Some(ParseInt(t))
     ELSE IF t # <<>> /\ t[1] = 45 /\ IsDigits(Tail(t)) THEN Some(0 - ParseInt(Tail(t)))
     ELSE None

\* the form of the last rate request is a number outside [0, 10]
LastFormOutOfRange(l) ==
  /\ l.op = "rate_show"
  /\ FormNumber(l.form).some
  /\ (FormNumber(l.form).v < 0 \/ FormNumber(l.form).v > 10)

\* C5 as claimed: a rate request for an existing show with a value outside
\* [0, 10] is not rejected and stores the value clamped to the nearest bound.
C5_RequestClamps ==
  (LastFormOutOfRange(last) /\ last.show_id \in ShowIds(shows)) =>
    /\ last.res = "Saved your rating."
    /\ user_rating_for_show(ratings, last.show_id, last.uid)
         = Some(NearestInRange(FormNumber(last.form).v))

\* every stored rating_half is in [0, 10], and the row of a pair holds the
\* value of its last upsert_rating brought to the nearest bound
C5_StoredInRange ==
  /\ \A r \in ratings : r.rating_half \in 0..10
  /\ \A show_id \in ShowIds(shows), user_id \in Users :
       LET h == hist[<<"ratings", show_id, user_id>>]
       IN h.op = "upsert" =>
            RatingRows(ratings, show_id, user_id)
              = {RatingRow(show_id, user_id, NearestInRange(h.value))}

\* a rate request with a value outside [0, 10] is answered with an error
\* and changes no rating
C5_RequestRejects ==
  LastFormOutOfRange(last') =>
    /\ last'.res \in {"Rating must be in half-star steps.",
                      "Rating must be between 0 and 5 stars (half steps)."}
    /\ ratings' = ratings

\* C5, amended: upsert_rating stores a value outside [0, 10] clamped to the
\* nearest bound, the rate request rejects such a value and stores nothing,
\* and every stored rating_half is in [0, 10].
C5_ClampOrReject == []C5_StoredInRange /\ [][C5_RequestRejects]_vars

\* upsert_rating stored 11 as 10 and -1 as 0, and the last rate request,
\* for 11, was refused
C5_Witness ==
  /\ LastFormOutOfRange(last)
  /\ last.show_id \in ShowIds(shows)
  /\ last.res = "Rating must be between 0 and 5 stars (half steps)."
  /\ \E show_id \in ShowIds(shows) :
       /\ hist[<<"ratings", show_id, 1>>] = [op |-> "upsert", value |-> 11]
       /\ user_rating_for_show(ratings, show_id, 1) = Some(10)
  /\ \E show_id \in ShowIds(shows) :
       /\ hist[<<"ratings", show_id, 1>>] = [op |-> "upsert", value |-> -1]
       /\ user_rating_for_show(ratings, show_id, 1) = Some(0)

-----------------------------------------------------------------------------
(* SpecOrder: shows that differ in year, corps and title are added and rated *)

\* (year, corps, title): "a"/"a", "a"/"B" and "B"/"a" of 2017, "a"/"a" of 2016
OrderShowInputs ==
  { <<2017, <<97>>, <<97>>>>, <<2017, <<97>>, <<66>>>>,
    <<2017, <<66>>, <<97>>>>, <<2016, <<97>>, <<97>>>> }

\* the shows that get ratings, and the half-star values
OrderRatedShows == {1, 2}
OrderRateInputs == {7, 9}

NextOrder ==
  \/ \E t \in OrderShowInputs : add_show(t[1], t[2], t[3], None)
  \/ \E show_id \in OrderRatedShows, user_id \in Raters, rating_half \in OrderRateInputs :
       upsert_rating(show_id, user_id, rating_half)

SpecOrder == Init /\ [][NextOrder]_vars

\* text s comes before text t when case is ignored
RECURSIVE NameBefore(_, _)
NameBefore(s, t) ==
  IF t = <<>> THEN FALSE
  ELSE IF s = <<>> THEN TRUE
  ELSE LET c == IF Head(s) \in 65..90 THEN Head(s) + 32 ELSE Head(s)
           d == IF Head(t) \in 65..90 THEN Head(t) + 32 ELSE Head(t)
       IN IF c # d THEN c < d ELSE NameBefore(Tail(s), Tail(t))

\* a and b in the order corps ascending, title ascending
ByCorpsTitle(a, b) ==
  IF NameBefore(a.corps, b.corps) THEN TRUE
  ELSE IF NameBefore(b.corps, a.corps) THEN FALSE
  ELSE ~NameBefore(b.title, a.title)

\* a and b in the order year descending, corps ascending, title ascending
ByYearDesc(a, b) ==
  IF a.year # b.year THEN a.year > b.year ELSE ByCorpsTitle(a, b)

\* a and b in the order count descending, year descending, corps, title
ByCountYear(a, b) ==
  IF a.cnt # b.cnt THEN a.cnt > b.cnt ELSE ByYearDesc(a, b)

\* avg_rating of a below avg_rating of b
AvgBelow(a, b) ==
  a.avg_rating.num * b.avg_rating.den < b.avg_rating.num * a.avg_rating.den

\* rows a, b may follow each other in this order under the sort value
InClaimedOrder(sort, a, b) ==
  IF sort \in {"top", "bottom"}
  THEN IF (a.cnt = 0) # (b.cnt = 0) THEN a.cnt > 0
       ELSE IF AvgBelow(a, b) THEN sort = "bottom"
       ELSE IF AvgBelow(b, a) THEN sort = "top"
       ELSE ByCountYear(a, b)
  ELSE ByYearDesc(a, b)

\* the sort values C9 speaks of: top, bottom, and values that fall back
OrderSorts == {"top", "bottom", "year_desc", "year", "newest", "TOP", ""}

\* C9: listShows returns every show once, and for top and bottom the rated
\* shows precede the unrated ones, then avg (descending for top, ascending
\* for bottom), count descending, year descending, corps and title
\* ascending without regard to case; every sort value other than year_asc,
\* corps, top and bottom gives year descending, corps, title.
C9_ListShowsOrder ==
  \A sort \in OrderSorts :
    LET rows == list_shows(shows, ratings, sort, None, None)
    IN /\ Len(rows) = Len(shows)
       /\ {rows[i].id : i \in 1..Len(rows)} = ShowIds(shows)
       /\ \A i, j \in 1..Len(rows) : i < j => InClaimedOrder(sort, rows[i], rows[j])

\* the ids of the rows, in order
Ids(rows) == [i \in 1..Len(rows) |-> rows[i].id]

\* show 1 ("B" of 2017, rated 9 once) and show 2 ("a" of 2017, rated 9
\* twice): top and bottom list show 2 first by count, the year order lists
\* it first by corps although "B" sorts before "a" in binary order
C9_Witness ==
  /\ Len(shows) = 2
  /\ shows[1].corps = <<66>> /\ shows[2].corps = <<97>>
  /\ shows[1].year = shows[2].year
  /\ {r.rating_half : r \in ratings} = {9}
  /\ Cardinality(JoinedRatings(ratings, 1)) = 1
  /\ Cardinality(JoinedRatings(ratings, 2)) = 2
  /\ Ids(list_shows(shows, ratings, "top", None, None)) = <<2, 1>>
  /\ Ids(list_shows(shows, ratings, "bottom", None, None)) = <<2, 1>>
  /\ Ids(list_shows(shows, ratings, "newest", None, None)) = <<2, 1>>

-----------------------------------------------------------------------------
(* reviews: upsert_review, delete_review *)

\* the longest review text upsert_review stores
MaxReviewChars == 5000

\* now_ts() moves on
Tick ==
  /\ clock < MaxTs
  /\ clock' = clock + 1
  /\ last' = [op |-> "tick"]
  /\ UNCHANGED <<shows, ratings, reviews, votes, procs, hist, roles, role_seq, user_roles, made, users>>

ReviewRow(show_id, user_id, review_text, ts) ==
  [show_id |-> show_id, user_id |-> user_id, review_text |-> review_text, ts |-> ts]

\* the rows of reviews with the key (show_id, user_id)
ReviewRows(rv, show_id, user_id) ==
  {r \in rv : r.show_id = show_id /\ r.user_id = user_id}

\* the FOREIGN KEYs of reviews, enforced by PRAGMA foreign_keys = ON
review_foreign_keys(sh, show_id, user_id) ==
  show_id \in ShowIds(sh) /\ user_id \in Users

\* the mutant of review_too_long: a text of MaxReviewChars is too long already
review_too_long_at_limit(text) == Len(text) >= MaxReviewChars

\* len(text) > 5000
review_too_long(text) == Len(text) > MaxReviewChars

\* INSERT INTO reviews ... ON CONFLICT(show_id, user_id) DO UPDATE SET
\* review_text = excluded.review_text, ts = excluded.ts
upsert_review_rows(rv, show_id, user_id, text, ts) ==
  LET mine == ReviewRows(rv, show_id, user_id)
  IN IF mine = {}
     THEN rv \cup {ReviewRow(show_id, user_id, text, ts)}
     ELSE (rv \ mine) \cup {[r EXCEPT !.review_text = text, !.ts = ts] : r \in mine}

\* what upsert_review does to table rv at time now
upsert_review_result(rv, sh, now, show_id, user_id, review_text) ==
  LET text == Strip(review_text)
  IN IF text = <<>>
     THEN [reviews |-> rv, res |-> "ValueError: Review cannot be empty."]
     ELSE IF review_too_long(text)
     THEN [reviews |-> rv, res |-> "ValueError: Review is too long (max 5000 chars)."]
     ELSE IF ~review_foreign_keys(sh, show_id, user_id)
     THEN [reviews |-> rv, res |-> "IntegrityError"]
     ELSE [reviews |-> upsert_review_rows(rv, show_id, user_id, text, now),
           res |-> "ok"]

\* one call of upsert_review on a connection of its own
upsert_review(show_id, user_id, review_text) ==
  LET r == upsert_review_result(reviews, shows, clock, show_id, user_id, review_text)
  IN /\ reviews' = r.reviews
     /\ hist' = IF r.res = "ok"
                THEN [hist EXCEPT ![<<"reviews", show_id, user_id>>] =
                        [op |-> "upsert", text |-> review_text]]
                ELSE hist
     /\ last' = [op |-> "upsert_review", show_id |-> show_id, user_id |-> user_id,
                 review_text |-> review_text, res |-> r.res]
     /\ UNCHANGED <<shows, ratings, votes, clock, procs, roles, role_seq, user_roles, made, users>>

\* DELETE FROM reviews WHERE show_id = ? AND user_id = ?
delete_review_rows(rv, show_id, user_id) ==
  rv \ ReviewRows(rv, show_id, user_id)

\* one call of delete_review on a connection of its own
delete_review(show_id, user_id) ==
  /\ reviews' = delete_review_rows(reviews, show_id, user_id)
  /\ hist' = [hist EXCEPT ![<<"reviews", show_id, user_id>>] = [op |-> "none"]]
  /\ last' = [op |-> "delete_review"]
  /\ UNCHANGED <<shows, ratings, votes, clock, procs, roles, role_seq, user_roles, made, users>>

\* SELECT review_text FROM reviews WHERE show_id = ? AND user_id = ? -> fetchone()
my_review_for_show(rv, show_id, user_id) ==
  LET hit == ReviewRows(rv, show_id, user_id)
  IN IF hit = {} THEN None ELSE Some((CHOOSE r \in hit : TRUE).review_text)

-----------------------------------------------------------------------------
(* SpecReview: shows are added, reviews are written and deleted *)

\* a text of n characters c
Repeat(c, n) == [i \in 1..n |-> c]

\* "", "  ", "a", " b ", and texts of MaxReviewChars and MaxReviewChars + 1
\* letters, the first of them also between two blanks
ReviewTexts ==
  { <<>>, <<32, 32>>, <<97>>, <<32, 98, 32>>,
    Repeat(97, MaxReviewChars), Repeat(97, MaxReviewChars + 1),
    <<32>> \o Repeat(99, MaxReviewChars) \o <<10>> }

\* the users who write reviews
Reviewers == {1}

NextReview ==
  \/ seed_show
  \/ \E show_id \in 1..MaxShows, user_id \in Reviewers, review_text \in ReviewTexts :
       upsert_review(show_id, user_id, review_text)
  \/ \E show_id \in 1..MaxShows, user_id \in Reviewers :
       delete_review(show_id, user_id)

SpecReview == Init /\ [][NextReview]_vars

\* text t is text raw without the whitespace at its two ends
IsTrimOf(t, raw) ==
  /\ t # <<>> => (~IsSpace(t[1]) /\ ~IsSpace(t[Len(t)]))
  /\ Len(t) <= Len(raw)
  /\ \E i \in 0..(Len(raw) - Len(t)) :
       /\ \A k \in 1..i : IsSpace(raw[k])
       /\ SubSeq(raw, i + 1, i + Len(t)) = t
       /\ \A k \in (i + Len(t) + 1)..Len(raw) : IsSpace(raw[k])

ReviewValidationErrors ==
  { "ValueError: Review cannot be empty.",
    "ValueError: Review is too long (max 5000 chars)." }

\* C10: upsertReview for an existing show succeeds exactly when the trimmed
\* text has between 1 and 5000 characters and fails with a validation error
\* otherwise; every stored text is non-empty and at most 5000 characters
\* long; a (show, user) pair has at most one review row, which holds the
\* whole trimmed text of the pair's last successful upsert.
C10_ReviewLength ==
  /\ \A r \in reviews : Len(r.review_text) >= 1 /\ Len(r.review_text) <= 5000
  /\ \A show_id \in ShowIds(shows), user_id \in Users :
       LET rows == ReviewRows(reviews, show_id, user_id)
           h == hist[<<"reviews", show_id, user_id>>]
       IN /\ Cardinality(rows) <= 1
          /\ h.op = "none" => rows = {}
          /\ h.op = "upsert" =>
               /\ rows # {}
               /\ \A r \in rows : IsTrimOf(r.review_text, h.text)
  /\ (last.op = "upsert_review" /\ last.show_id \in ShowIds(shows)) =>
       LET n == Len(Strip(last.review_text))
       IN /\ last.res = "ok" <=> (n >= 1 /\ n <= 5000)
          /\ last.res # "ok" => last.res \in ReviewValidationErrors
          /\ last.res = "ok" =>
               hist[<<"reviews", last.show_id, last.user_id>>]
                 = [op |-> "upsert", text |-> last.review_text]

\* a review of 5000 letters between two blanks was stored whole over the
\* review "a" of the same pair, and the last call, with 5001 letters, failed
\* and left it in place
C10_Witness ==
  /\ last.op = "upsert_review"
  /\ Len(last.review_text) = 5001 /\ Len(Strip(last.review_text)) = 5001
  /\ last.res = "ValueError: Review is too long (max 5000 chars)."
  /\ hist[<<"reviews", last.show_id, last.user_id>>].op = "upsert"
  /\ Len(hist[<<"reviews", last.show_id, last.user_id>>].text) = 5002
  /\ my_review_for_show(reviews, last.show_id, last.user_id) = Some(Repeat(99, 5000))

-----------------------------------------------------------------------------
(* list_top_shows_with_top_review: the rated shows, each with its top review *)

\* "top", "bottom"
ModeTop == <<116, 111, 112>>
ModeBottom == <<98, 111, 116, 116, 111, 109>>

\* mode = (mode or "top").strip().lower()
top_mode(mode) ==
  Lower(Strip(IF mode.some /\ mode.v # <<>> THEN mode.v ELSE ModeTop))

\* the mutant of round2_avg: the average is cut to a whole number of stars
round2_avg_whole_stars(rows) ==
  IF rows = {} THEN 0 ELSE 100 * (SumHalf(rows) \div (2 * Cardinality(rows)))

\* COALESCE(ROUND(AVG(r.rating_half) / 2.0, 2), 0) in hundredths of a star:
\* 50 * sum / count, rounded to the nearest integer
round2_avg(rows) ==
  IF rows = {} THEN 0
  ELSE (100 * SumHalf(rows) + Cardinality(rows)) \div (2 * Cardinality(rows))

\* the row of show id in show_stats
ShowStatsRow(sh, rt, id) ==
  [id |-> id, title |-> sh[id].title, corps |-> sh[id].corps, year |-> sh[id].year,
   poster_url |-> sh[id].poster_url,
   cnt |-> cnt(JoinedRatings(rt, id)),
   avg_rating |-> round2_avg(JoinedRatings(rt, id))]

\* WITH show_stats AS (SELECT ... FROM shows s LEFT JOIN ratings r ... GROUP BY s.id)
show_stats(sh, rt) == {ShowStatsRow(sh, rt, id) : id \in ShowIds(sh)}

\* SUM(v.vote) over a set of vote rows
RECURSIVE SumVotes(_)
SumVotes(rows) ==
  IF rows = {} THEN 0
  ELSE LET v == CHOOSE x \in rows : TRUE
       IN v.vote + SumVotes(rows \ {v})

\* COALESCE((SELECT SUM(v.vote) FROM review_votes v WHERE v.show_id = rv.show_id
\* AND v.review_user_id = rv.user_id), 0) AS vote_score
vote_score(vt, show_id, user_id) ==
  SumVotes({v \in vt : v.show_id = show_id /\ v.review_user_id = user_id})

\* review_scores: the reviews joined with their authors (the user's id stands
\* for the username), the author's rating of the show and the vote score
review_scores(rv, rt, vt) ==
  { [show_id |-> r.show_id, user_id |-> r.user_id, review_text |-> r.review_text,
     ts |-> r.ts, username |-> r.user_id,
     review_rating_half |-> user_rating_for_show(rt, r.show_id, r.user_id),
     vote_score |-> vote_score(vt, r.show_id, r.user_id)]
    : r \in {x \in rv : x.user_id \in Users} }

\* the mutant of rn_first: the window is ordered by ts alone
rn_first_latest(rs, show_id) ==
  LET part == {r \in rs : r.show_id = show_id}
  IN {r \in part : \A o \in part : o.ts <= r.ts}

\* the rows ROW_NUMBER() OVER (PARTITION BY rs.show_id ORDER BY rs.vote_score
\* DESC, rs.ts DESC) may number 1 in the partition of show_id: rows equal in
\* both keys are numbered in an order the store picks
rn_first(rs, show_id) ==
  LET part == {r \in rs : r.show_id = show_id}
  IN {r \in part :
        \A o \in part : FirstNonZero(<< CmpInt(o.vote_score, r.vote_score),
                                        CmpInt(o.ts, r.ts) >>) <= 0}

\* the mutant of top_order: bottom orders the counts ascending as well
top_order_bottom_reversed(mode, a, b) ==
  IF mode = ModeBottom
  THEN << CmpInt(a.avg_rating, b.avg_rating), CmpInt(a.cnt, b.cnt),
          CmpInt(b.year, a.year), CmpInt(a.id, b.id) >>
  ELSE << CmpInt(b.avg_rating, a.avg_rating), CmpInt(b.cnt, a.cnt),
          CmpInt(b.year, a.year), CmpInt(a.id, b.id) >>

\* order_sql: the comparisons of rows a and b, key by key (negative: a first)
top_order(mode, a, b) ==
  IF mode = ModeBottom
  THEN << CmpInt(a.avg_rating, b.avg_rating), CmpInt(b.cnt, a.cnt),
          CmpInt(b.year, a.year), CmpInt(a.id, b.id) >>
  ELSE << CmpInt(b.avg_rating, a.avg_rating), CmpInt(b.cnt, a.cnt),
          CmpInt(b.year, a.year), CmpInt(a.id, b.id) >>

\* the rows of show_stats in ORDER BY order
RECURSIVE OrderTop(_, _)
OrderTop(rows, mode) ==
  IF rows = {} THEN <<>>
  ELSE LET first == CHOOSE a \in rows :
                      \A b \in rows : FirstNonZero(top_order(mode, b, a)) >= 0
       IN <<first>> \o OrderTop(rows \ {first}, mode)

\* the mutant of top_where: no WHERE clause
top_where_all(ss) == TRUE

\* WHERE ss.cnt > 0
top_where(ss) == ss.cnt > 0

\* LIMIT ?: a negative limit is no limit
Limit(rows, limit) ==
  IF limit < 0 \/ limit >= Len(rows) THEN rows ELSE SubSeq(rows, 1, limit)

\* show_stats ss LEFT JOIN top_review_per_show tr ON tr.show_id = ss.id AND
\* tr.rn = 1: the result row of ss with top review tr (None: no such review)
TopRow(ss, tr) ==
  [id |-> ss.id, title |-> ss.title, corps |-> ss.corps, year |-> ss.year,
   poster_url |-> ss.poster_url, cnt |-> ss.cnt, avg_rating |-> ss.avg_rating,
   top_review_username |-> IF tr.some THEN Some(tr.v.username) ELSE None,
   top_review_text |-> IF tr.some THEN Some(tr.v.review_text) ELSE None,
   top_review_score |-> IF tr.some THEN Some(tr.v.vote_score) ELSE None,
   top_review_ts |-> IF tr.some THEN Some(tr.v.ts) ELSE None,
   top_review_rating_half |-> IF tr.some THEN tr.v.review_rating_half ELSE None]

\* the results the join may give for the rows ss of show_stats, in order
RECURSIVE JoinTopReviews(_, _)
JoinTopReviews(ss, rs) ==
  IF ss = <<>> THEN { <<>> }
  ELSE LET firsts == rn_first(rs, Head(ss).id)
           trs == IF firsts = {} THEN {None} ELSE {Some(r) : r \in firsts}
       IN { <<TopRow(Head(ss), tr)>> \o rest :
              tr \in trs, rest \in JoinTopReviews(Tail(ss), rs) }

\* list_top_shows_with_top_review(conn, limit, mode): the results the query
\* may give
list_top_shows_with_top_review(sh, rt, rv, vt, limit, mode) ==
  JoinTopReviews(
    Limit(OrderTop({ss \in show_stats(sh, rt) : top_where(ss)}, top_mode(mode)), limit),
    review_scores(rv, rt, vt))

-----------------------------------------------------------------------------
(* C7: topShows over the states of SpecOrder *)

\* the limits topShows is asked with
TopLimits == {0, 1, 2, 3}

\* the shows with at least one rating row
RatedShows == {id \in ShowIds(shows) : \E r \in ratings : r.show_id = id}

\* rows a, b may follow each other in this order under the mode
InTopOrder(mode, a, b) ==
  IF a.avg_rating # b.avg_rating
  THEN IF mode = ModeTop THEN a.avg_rating > b.avg_rating
       ELSE a.avg_rating < b.avg_rating
  ELSE IF a.cnt # b.cnt THEN a.cnt > b.cnt
  ELSE IF a.year # b.year THEN a.year > b.year
  ELSE a.id < b.id

\* C7: topShows(limit, mode) returns only shows with at least one rating,
\* never one with count 0, at most limit rows (limit rows when that many
\* shows are rated), in the order avg_rating descending for top and
\* ascending for bottom, then count descending, year descending, id
\* ascending.
C7_TopShows ==
  \A limit \in TopLimits, mode \in {ModeTop, ModeBottom} :
    \A rows \in list_top_shows_with_top_review(shows, ratings, reviews, votes,
                                               limit, Some(mode)) :
      /\ Len(rows) <= limit
      /\ Len(rows) = Min(limit, Cardinality(RatedShows))
      /\ \A i \in 1..Len(rows) :
           /\ rows[i].id \in RatedShows
           /\ rows[i].cnt > 0
           /\ rows[i].cnt = Cardinality({r \in ratings : r.show_id = rows[i].id})
      /\ \A i, j \in 1..Len(rows) : i < j => InTopOrder(mode, rows[i], rows[j])

\* the ids topShows(limit, mode) lists, for one of the results it may give
TopIds(limit, mode) ==
  Ids(CHOOSE rows \in list_top_shows_with_top_review(shows, ratings, reviews,
                        votes, limit, Some(mode)) : TRUE)

\* show 1 of 2016 and show 2 of 2017, each rated 9 once: top and bottom list
\* show 2 first by year, and limit 1 keeps show 2 only
C7_Witness ==
  /\ Len(shows) = 2
  /\ shows[1].year = 2016 /\ shows[2].year = 2017
  /\ \A id \in {1, 2} : {r.rating_half : r \in JoinedRatings(ratings, id)} = {9}
  /\ \A id \in {1, 2} : Cardinality(JoinedRatings(ratings, id)) = 1
  /\ TopIds(3, ModeTop) = <<2, 1>>
  /\ TopIds(3, ModeBottom) = <<2, 1>>
  /\ TopIds(1, ModeTop) = <<2>>

-----------------------------------------------------------------------------
(* SpecBest: shows are rated and reviewed, reviews are voted on *)

\* (show, author) of the reviews that are written; their text is "x"
BestReviewInputs == { <<1, 1>>, <<1, 2>>, <<2, 1>> }

NextBest ==
  \/ seed_show
  \/ Tick
  \/ \E show_id \in 1..MaxShows : upsert_rating(show_id, 1, 9)
  \/ \E t \in BestReviewInputs : upsert_review(t[1], t[2], <<120>>)
  \/ \E review_user_id \in {1, 2}, vote \in {1, -1} :
       set_review_vote(1, review_user_id, 3, vote)

SpecBest == Init /\ [][NextBest]_vars

\* the up votes minus the down votes of the review of show_id by user_id
Score(show_id, user_id) ==
  Cardinality({v \in votes : v.show_id = show_id /\ v.review_user_id = user_id
                               /\ v.vote = 1})
  - Cardinality({v \in votes : v.show_id = show_id /\ v.review_user_id = user_id
                                 /\ v.vote = -1})

\* the result row carries review b as its best review
CarriesReview(row, b) ==
  /\ row.top_review_username = Some(b.user_id)
  /\ row.top_review_text = Some(b.review_text)
  /\ row.top_review_ts = Some(b.ts)
  /\ row.top_review_score = Some(Score(b.show_id, b.user_id))

\* the result row carries no best review
CarriesNoReview(row) ==
  /\ row.top_review_username = None
  /\ row.top_review_text = None
  /\ row.top_review_ts = None
  /\ row.top_review_score = None

\* C8: every show topShows returns has one result row; its best review is a
\* stored review of that show that no other review of the show beats in vote
\* score, or, at the same score, in timestamp; a show without reviews
\* carries a null best review.
C8_BestReview ==
  \A limit \in {1, 3}, mode \in {ModeTop, ModeBottom} :
    \A rows \in list_top_shows_with_top_review(shows, ratings, reviews, votes,
                                               limit, Some(mode)) :
      /\ \A i, j \in 1..Len(rows) : i # j => rows[i].id # rows[j].id
      /\ \A i \in 1..Len(rows) :
           LET mine == {r \in reviews : r.show_id = rows[i].id}
           IN IF mine = {} THEN CarriesNoReview(rows[i])
              ELSE \E b \in mine :
                     /\ CarriesReview(rows[i], b)
                     /\ \A o \in mine :
                          \/ Score(o.show_id, o.user_id) < Score(b.show_id, b.user_id)
                          \/ /\ Score(o.show_id, o.user_id) = Score(b.show_id, b.user_id)
                             /\ o.ts <= b.ts

\* show 1 has the older review of user 1 with score 1 and the newer review
\* of user 2 with score 0, show 2 has a rating and no review: topShows
\* carries user 1's review for show 1 and none for show 2
C8_Witness ==
  /\ {1, 2} \subseteq RatedShows
  /\ \E a, b \in reviews :
       /\ a.show_id = 1 /\ a.user_id = 1 /\ b.show_id = 1 /\ b.user_id = 2
       /\ a.ts < b.ts
  /\ Score(1, 1) = 1 /\ Score(1, 2) = 0
  /\ {r \in reviews : r.show_id = 2} = {}
  /\ \A rows \in list_top_shows_with_top_review(shows, ratings, reviews, votes,
                                                3, Some(ModeTop)) :
       /\ Len(rows) = 2
       /\ \A i \in 1..2 :
            /\ rows[i].id = 1 => rows[i].top_review_username = Some(1)
            /\ rows[i].id = 2 => CarriesNoReview(rows[i])

-----------------------------------------------------------------------------
(* roles and user_roles: create_role, update_role, delete_role,
   assign_role_to_user, remove_role_from_user, roles_for_user *)

\* a-z, 0-9
IsSlugChar(c) == c \in 97..122 \/ c \in 48..57

\* re.sub(r"[^a-z0-9]+", "-", s): every run of other characters becomes one "-"
RECURSIVE SubRuns(_)
SubRuns(s) ==
  IF s = <<>> THEN <<>>
  ELSE IF IsSlugChar(Head(s)) THEN <<Head(s)>> \o SubRuns(Tail(s))
  ELSE IF Len(s) > 1 /\ ~IsSlugChar(s[2]) THEN SubRuns(Tail(s))
  ELSE <<45>> \o SubRuns(Tail(s))

\* str.strip("-")
RECURSIVE StripHyphens(_)
StripHyphens(s) ==
  IF s = <<>> THEN <<>>
  ELSE IF Head(s) = 45 THEN StripHyphens(Tail(s))
  ELSE IF s[Len(s)] = 45 THEN StripHyphens(SubSeq(s, 1, Len(s) - 1))
  ELSE s

\* "role"
DefaultSlug == <<114, 111, 108, 101>>

\* _slugify(name)
_slugify(name) ==
  LET s == StripHyphens(SubRuns(Lower(Strip(name))))
  IN IF s = <<>> THEN DefaultSlug ELSE s

\* 0-9, a-f, A-F
IsHexDigit(c) == c \in 48..57 \/ c \in 97..102 \/ c \in 65..70

\* _clean_hex_color(color) or None
_clean_hex_color(color) ==
  LET s == Strip(color)
  IN IF Len(s) = 7 /\ s[1] = 35 /\ \A i \in 2..7 : IsHexDigit(s[i])
     THEN Some(s) ELSE None

RoleRow(id, name, slug, color) ==
  [id |-> id, name |-> name, slug |-> slug, color |-> color]

RoleIds(rl) == {r.id : r \in rl}

\* SELECT 1 FROM roles WHERE slug = ?  -> fetchone()
slug_taken(rl, slug) == \E r \in rl : r.slug = slug

\* slug = f"{base}-{n}"
suffixed(base, n) == base \o <<45>> \o Digits(n)

\* the while loop of create_role from suffix n on
RECURSIVE free_slug_from(_, _, _)
free_slug_from(rl, base, n) ==
  IF slug_taken(rl, suffixed(base, n)) THEN free_slug_from(rl, base, n + 1)
  ELSE suffixed(base, n)

\* the mutant of free_slug: the suffixes start at 1
free_slug_suffix_from_one(rl, base) ==
  IF slug_taken(rl, base) THEN free_slug_from(rl, base, 1) ELSE base

\* the slug create_role settles on: base, or base with the first suffix
\* 2, 3, ... that no role has
free_slug(rl, base) ==
  IF slug_taken(rl, base) THEN free_slug_from(rl, base, 2) ELSE base

\* the mutant of roles_name_unique: names are unique only up to letter case
roles_name_unique_nocase(rl, id, nm) ==
  \A r \in rl : r.id # id => Lower(r.name) # Lower(nm)

\* name TEXT NOT NULL UNIQUE: no role other than id has the name
roles_name_unique(rl, id, nm) == \A r \in rl : r.id # id => r.name # nm

\* what create_role does to table rl when AUTOINCREMENT stands at seq
create_role_result(rl, seq, name, color) ==
  LET nm == Strip(name)
      slug == free_slug(rl, _slugify(nm))
  IN IF nm = <<>>
     THEN [roles |-> rl, seq |-> seq, res |-> "ValueError: Role name is required."]
     ELSE IF ~roles_name_unique(rl, 0, nm) \/ slug_taken(rl, slug)
     THEN [roles |-> rl, seq |-> seq, res |-> "IntegrityError"]
     ELSE [roles |-> rl \cup {RoleRow(seq + 1, nm, slug, _clean_hex_color(color))},
           seq |-> seq + 1, res |-> "ok"]

\* one call of create_role on a connection of its own
create_role(name, color) ==
  LET r == create_role_result(roles, role_seq, name, color)
  IN /\ r.seq <= MaxRoles
     /\ roles' = r.roles
     /\ role_seq' = r.seq
     /\ last' = [op |-> "create_role", name |-> name, res |-> r.res]
     /\ UNCHANGED <<shows, ratings, reviews, votes, clock, procs, hist, user_roles, made, users>>

\* what update_role does to table rl
update_role_result(rl, role_id, name, color) ==
  LET nm == Strip(name)
  IN IF nm = <<>>
     THEN [roles |-> rl, res |-> "ValueError: Role name is required."]
     ELSE IF role_id \in RoleIds(rl) /\ ~roles_name_unique(rl, role_id, nm)
     THEN [roles |-> rl, res |-> "IntegrityError"]
     ELSE [roles |-> {IF r.id = role_id
                      THEN [r EXCEPT !.name = nm, !.color = _clean_hex_color(color)]
                      ELSE r : r \in rl},
           res |-> "ok"]

\* one call of update_role on a connection of its own
update_role(role_id, name, color) ==
  LET r == update_role_result(roles, role_id, name, color)
  IN /\ roles' = r.roles
     /\ last' = [op |-> "update_role", role_id |-> role_id, name |-> name,
                 res |-> r.res]
     /\ UNCHANGED <<shows, ratings, reviews, votes, clock, procs, hist,
                    role_seq, user_roles, made, users>>

\* the pairs of made that are still rows of table ur
StillMade(seq, ur) ==
  SelectSeq(seq, LAMBDA p : \E a \in ur : a.user_id = p[1] /\ a.role_id = p[2])

\* the mutant of delete_role_cascade: the assignments stay
delete_role_no_cascade(ur, role_id) == ur

\* FOREIGN KEY(role_id) REFERENCES roles(id) ON DELETE CASCADE
delete_role_cascade(ur, role_id) == {a \in ur : a.role_id # role_id}

\* one call of delete_role: DELETE FROM roles WHERE id = ?
delete_role(role_id) ==
  /\ roles' = {r \in roles : r.id # role_id}
  /\ user_roles' = delete_role_cascade(user_roles, role_id)
  /\ made' = StillMade(made, user_roles')
  /\ last' = [op |-> "delete_role", role_id |-> role_id,
              cascaded |-> user_roles \ user_roles']
  /\ UNCHANGED <<shows, ratings, reviews, votes, clock, procs, hist, role_seq, users>>

-----------------------------------------------------------------------------
(* SpecRoles: roles are created, renamed and deleted *)

\* "Veterans!!", "Veterans!", "veterans-2", " Veterans!! ", "", "!!"
NameVeterans2 == <<86, 101, 116, 101, 114, 97, 110, 115, 33, 33>>
NameVeterans1 == <<86, 101, 116, 101, 114, 97, 110, 115, 33>>
NameSuffixed == <<118, 101, 116, 101, 114, 97, 110, 115, 45, 50>>
RoleNames ==
  { NameVeterans2, NameVeterans1, NameSuffixed,
    <<32>> \o NameVeterans2 \o <<32>>, <<>>, <<33, 33>> }

\* "#0aF9b3"
RoleColors == { <<35, 48, 97, 70, 57, 98, 51>> }

\* the names roles are renamed to
RoleEditNames == {NameVeterans1, NameSuffixed, <<>>}

NextRoles ==
  \/ \E name \in RoleNames, color \in RoleColors : create_role(name, color)
  \/ \E role_id \in 1..MaxRoles, name \in RoleEditNames :
       update_role(role_id, name, <<>>)
  \/ \E role_id \in 1..MaxRoles : delete_role(role_id)

SpecRoles == Init /\ [][NextRoles]_vars

\* "veterans"
SlugVeterans == <<118, 101, 116, 101, 114, 97, 110, 115>>

\* C11 as claimed: creating a role named "Veterans!!" when a role of that
\* name with the slug veterans is stored gives a second stored role, with
\* the slug veterans-2.
C11_SameNameTwice ==
  [][ ( /\ last'.op = "create_role"
        /\ last'.name = NameVeterans2
        /\ \E r \in roles : r.name = NameVeterans2 /\ r.slug = SlugVeterans
        /\ ~\E r \in roles : r.slug = SlugVeterans \o <<45, 50>> )
      => \E r \in roles' \ roles :
           r.name = NameVeterans2 /\ r.slug = SlugVeterans \o <<45, 50>> ]_vars

\* role slugs are pairwise distinct
C11_SlugsDistinct ==
  \A r1, r2 \in roles : r1.slug = r2.slug => r1 = r2

\* a create_role that succeeds stores one new role; its slug is the slug
\* derived from the name when no role has it, and otherwise the derived
\* slug with the smallest suffix -2, -3, ... that no role has
C11_SmallestSuffix ==
  (last'.op = "create_role" /\ last'.res = "ok") =>
    \E r \in roles' :
      /\ roles' = roles \cup {r}
      /\ r \notin roles
      /\ r.name = Strip(last'.name)
      /\ LET base == _slugify(last'.name)
             slugs == {x.slug : x \in roles}
         IN IF base \notin slugs THEN r.slug = base
            ELSE \E n \in 2..(Cardinality(roles) + 2) :
                   /\ r.slug = base \o <<45>> \o Digits(n)
                   /\ r.slug \notin slugs
                   /\ \A m \in 2..(n - 1) : (base \o <<45>> \o Digits(m)) \in slugs

\* C11, amended: creating roles named "Veterans!!" and "Veterans!" yields
\* two stored roles with the slugs veterans and veterans-2 (a second role
\* named "Veterans!!" is refused); createRole gives a role whose derived slug
\* is taken the slug with the smallest suffix -2, -3, ... not in use, and
\* role slugs are pairwise distinct in every reachable state.
C11_SlugCollision ==
  /\ []C11_SlugsDistinct
  /\ [][C11_SmallestSuffix]_vars
  /\ [][ ( /\ last'.op = "create_role"
           /\ last'.name = NameVeterans1
           /\ roles = {RoleRow(1, NameVeterans2, SlugVeterans, Some(<<35, 48, 97, 70, 57, 98, 51>>))} )
         => {r.slug : r \in roles'} = {SlugVeterans, SlugVeterans \o <<45, 50>>} ]_vars

\* "Veterans!!" has the slug veterans, "veterans-2" its own name as slug, and
\* "Veterans!", created last, the slug veterans-3
C11_Witness ==
  /\ last.op = "create_role" /\ last.res = "ok" /\ last.name = NameVeterans1
  /\ \E r \in roles : r.name = NameVeterans2 /\ r.slug = SlugVeterans
  /\ \E r \in roles : r.name = NameSuffixed /\ r.slug = NameSuffixed
  /\ \E r \in roles : r.name = NameVeterans1 /\ r.slug = SlugVeterans \o <<45, 51>>

-----------------------------------------------------------------------------
(* admin_roles_post, admin_edit_role_post: the requests that create and
   rename roles *)

\* the clause "except sqlite3.IntegrityError:" of the two handlers: app.py
\* imports os, functools, typing, flask, werkzeug and db, and no sqlite3, so
\* evaluating the clause for an exception that is not a ValueError raises
\* NameError and the request ends in a server error; flash is the message
\* the body of the clause would have flashed
except_sqlite3_IntegrityError(flash) == "NameError: name 'sqlite3' is not defined"

\* what admin_roles_post answers for the result res of create_role
admin_roles_post_answer(res) ==
  IF res = "ok" THEN "Role created."
  ELSE IF res = "ValueError: Role name is required." THEN "Role name is required."
  ELSE except_sqlite3_IntegrityError("Role name already exists.")

\* one request POST /admin/roles
admin_roles_post(name, color) ==
  LET r == create_role_result(roles, role_seq, Strip(name), Strip(color))
  IN /\ r.seq <= MaxRoles
     /\ roles' = r.roles
     /\ role_seq' = r.seq
     /\ last' = [op |-> "admin_roles_post", name |-> name, res |-> r.res,
                 answer |-> admin_roles_post_answer(r.res)]
     /\ UNCHANGED <<shows, ratings, reviews, votes, clock, procs, hist, user_roles, made, users>>

\* what admin_edit_role_post answers for the result res of update_role
admin_edit_role_post_answer(res) ==
  IF res = "ok" THEN "Role updated."
  ELSE IF res = "ValueError: Role name is required." THEN "Role name is required."
  ELSE except_sqlite3_IntegrityError("That role name already exists.")

\* one request POST /admin/roles/<role_id>/edit
admin_edit_role_post(role_id, name, color) ==
  LET r == update_role_result(roles, role_id, Strip(name), Strip(color))
  IN /\ roles' = r.roles
     /\ last' = [op |-> "admin_edit_role_post", role_id |-> role_id, name |-> name,
                 res |-> r.res, answer |-> admin_edit_role_post_answer(r.res)]
     /\ UNCHANGED <<shows, ratings, reviews, votes, clock, procs, hist,
                    role_seq, user_roles, made, users>>

-----------------------------------------------------------------------------
(* SpecRoleAdmin: roles are created and renamed through the admin requests *)

NextRoleAdmin ==
  \/ \E name \in RoleNames, color \in RoleColors : admin_roles_post(name, color)
  \/ \E role_id \in 1..MaxRoles, name \in RoleEditNames :
       admin_edit_role_post(role_id, name, <<>>)

SpecRoleAdmin == Init /\ [][NextRoleAdmin]_vars

\* C12: createRole with the name of an existing role and updateRole to the
\* name of a different role fail with a conflict error and change no role;
\* the admin request that made the call answers that the role name already
\* exists; role names are pairwise distinct.
C12_NameConflictReported ==
  [][ /\ \A r1, r2 \in roles' : r1.name = r2.name => r1 = r2
      /\ ( /\ last'.op = "admin_roles_post"
           /\ \E r \in roles : r.name = Strip(last'.name) )
         => /\ last'.res = "IntegrityError"
            /\ roles' = roles
            /\ last'.answer = "Role name already exists."
      /\ ( /\ last'.op = "admin_edit_role_post"
           /\ last'.role_id \in RoleIds(roles)
           /\ \E r \in roles : r.id # last'.role_id /\ r.name = Strip(last'.name) )
         => /\ last'.res = "IntegrityError"
            /\ roles' = roles
            /\ last'.answer = "That role name already exists." ]_vars

-----------------------------------------------------------------------------
(* update_show, one call at a time *)

\* the mutant of update_show_precheck: the SELECT leaves out "AND id <> ?"
update_show_precheck_any_id(sh, show_id, new_key) ==
  \E i \in ShowIds(sh) : sh[i].norm_key = new_key

\* row = SELECT id FROM shows WHERE norm_key = ? AND id <> ? -> fetchone()
update_show_precheck(sh, show_id, new_key) == update_show_check(sh, show_id, new_key)

\* the mutant of update_show_result: the UPDATE runs before the check for
\* another show with the key
update_show_result_write_first(sh, show_id, year, corps, title, poster_url) ==
  LET corps_s == Strip(corps)
      title_s == Strip(title)
      new_key == norm_key(year, corps_s, title_s)
  IN IF corps_s = <<>> \/ title_s = <<>>
     THEN [shows |-> sh, res |-> "ValueError: missing"]
     ELSE IF update_show_precheck(sh, show_id, new_key)
     THEN [shows |-> update_show_write(sh, show_id, year, corps_s, title_s,
                                       StripOrNone(poster_url), new_key),
           res |-> "ValueError: duplicate"]
     ELSE [shows |-> update_show_write(sh, show_id, year, corps_s, title_s,
                                       StripOrNone(poster_url), new_key),
           res |-> "updated"]

\* what update_show does to table sh when no other request runs
update_show_result(sh, show_id, year, corps, title, poster_url) ==
  LET corps_s == Strip(corps)
      title_s == Strip(title)
      poster_s == StripOrNone(poster_url)
      new_key == norm_key(year, corps_s, title_s)
  IN IF corps_s = <<>> \/ title_s = <<>>
     THEN [shows |-> sh, res |-> "ValueError: missing"]
     ELSE IF update_show_precheck(sh, show_id, new_key)
     THEN [shows |-> sh, res |-> "ValueError: duplicate"]
     ELSE IF show_id \in ShowIds(sh) /\ ~UniqueNormKey(sh, show_id, new_key)
     THEN [shows |-> sh, res |-> "IntegrityError"]
     ELSE [shows |-> update_show_write(sh, show_id, year, corps_s, title_s,
                                       poster_s, new_key),
           res |-> "updated"]

\* one call of update_show on a connection of its own
update_show(show_id, year, corps, title, poster_url) ==
  LET r == update_show_result(shows, show_id, year, corps, title, poster_url)
  IN /\ shows' = r.shows
     /\ last' = [op |-> "update_show", show_id |-> show_id, year |-> year,
                 corps |-> corps, title |-> title, poster_url |-> poster_url,
                 res |-> r.res]
     /\ UNCHANGED <<ratings, reviews, votes, clock, procs, hist,
                    roles, role_seq, user_roles, made, users>>

-----------------------------------------------------------------------------
(* SpecEdit: shows are added and edited, one call after the other *)

\* (year, title, poster_url) of the edits: "AB " of 2017 with the poster
\* " p ", "cd" of 2017, "ab" of 2016, and an empty title
EditInputs ==
  { <<2017, <<65, 66, 32>>, Some(<<32, 112, 32>>)>>, <<2017, <<99, 100>>, None>>,
    <<2016, <<97, 98>>, None>>, <<2017, <<>>, None>> }

NextEdit ==
  \/ \E title \in {<<97, 98>>, <<99, 100>>} : add_show(2017, <<98>>, title, None)
  \/ \E show_id \in 1..MaxShows, e \in EditInputs :
       update_show(show_id, e[1], <<98>>, e[2], e[3])

SpecEdit == Init /\ [][NextEdit]_vars

\* C13: updateShow of a stored show with non-empty corps and title fails
\* with the duplicate validation error exactly when a show with another id
\* has the recomputed norm_key, and then changes nothing; otherwise it
\* succeeds, the show's norm_key is the key recomputed from the new year,
\* corps and title, and no other show changes.
C13_UpdateShowDuplicate ==
  [][ ( /\ last'.op = "update_show"
        /\ last'.show_id \in ShowIds(shows)
        /\ Strip(last'.corps) # <<>> /\ Strip(last'.title) # <<>> )
      => LET id == last'.show_id
             key == norm_key(last'.year, Strip(last'.corps), Strip(last'.title))
             other == \E i \in ShowIds(shows) : i # id /\ shows[i].norm_key = key
         IN /\ last'.res = "ValueError: duplicate" <=> other
            /\ other => shows' = shows
            /\ ~other =>
                 /\ last'.res = "updated"
                 /\ Len(shows') = Len(shows)
                 /\ shows'[id].norm_key = key
                 /\ shows'[id].year = last'.year
                 /\ shows'[id].title = Strip(last'.title)
                 /\ shows'[id].corps = Strip(last'.corps)
                 /\ shows'[id].poster_url = StripOrNone(last'.poster_url)
                 /\ \A i \in ShowIds(shows) : i # id => shows'[i] = shows[i] ]_vars

\* show 1, stored as "ab", was edited to "AB " with a poster: the update
\* succeeded and the key is the one it had, while show 2 holds another key
C13_Witness ==
  /\ last.op = "update_show" /\ last.res = "updated" /\ last.show_id = 1
  /\ last.title = <<65, 66, 32>> /\ last.poster_url.some
  /\ Len(shows) = 2
  /\ shows[1].title = <<65, 66>>
  /\ shows[1].norm_key = norm_key(2017, <<98>>, <<97, 98>>)
  /\ shows[2].norm_key = norm_key(2017, <<98>>, <<99, 100>>)

-----------------------------------------------------------------------------
(* The assignments of roles to users *)

UserRoleRow(user_id, role_id, assigned_ts, assigned_by_user_id) ==
  [user_id |-> user_id, role_id |-> role_id, assigned_ts |-> assigned_ts,
   assigned_by_user_id |-> assigned_by_user_id]

\* PRIMARY KEY(user_id, role_id)
holds_role(ur, user_id, role_id) ==
  \E a \in ur : a.user_id = user_id /\ a.role_id = role_id

\* INSERT OR IGNORE INTO user_roles(...) VALUES (?,?,?,?)
assign_role_to_user_rows(ur, user_id, role_id, ts, by) ==
  IF holds_role(ur, user_id, role_id) THEN ur
  ELSE ur \cup {UserRoleRow(user_id, role_id, ts, by)}

\* OR IGNORE passes over the conflict on the primary key, not over a
\* foreign key that fails
assign_role_to_user_result(ur, rl, user_id, role_id, ts, by) ==
  IF holds_role(ur, user_id, role_id)
  THEN [user_roles |-> assign_role_to_user_rows(ur, user_id, role_id, ts, by),
        res |-> "ignored"]
  ELSE IF user_id \notin Users \/ role_id \notin RoleIds(rl)
  THEN [user_roles |-> ur, res |-> "IntegrityError"]
  ELSE [user_roles |-> assign_role_to_user_rows(ur, user_id, role_id, ts, by),
        res |-> "ok"]

\* one call of assign_role_to_user; assigned_ts is now_ts()
assign_role_to_user(user_id, role_id, assigned_by_user_id) ==
  LET r == assign_role_to_user_result(user_roles, roles, user_id, role_id,
                                      clock, assigned_by_user_id)
  IN /\ user_roles' = r.user_roles
     /\ made' = IF r.res = "ok" THEN Append(made, <<user_id, role_id>>)
                ELSE StillMade(made, user_roles')
     /\ last' = [op |-> "assign_role_to_user", user_id |-> user_id,
                 role_id |-> role_id, res |-> r.res]
     /\ UNCHANGED <<shows, ratings, reviews, votes, clock, procs, hist,
                    roles, role_seq, users>>

\* one call of remove_role_from_user:
\* DELETE FROM user_roles WHERE user_id = ? AND role_id = ?
remove_role_from_user(user_id, role_id) ==
  /\ user_roles' = {a \in user_roles :
                      ~(a.user_id = user_id /\ a.role_id = role_id)}
  /\ made' = StillMade(made, user_roles')
  /\ last' = [op |-> "remove_role_from_user", user_id |-> user_id,
              role_id |-> role_id]
  /\ UNCHANGED <<shows, ratings, reviews, votes, clock, procs, hist,
                 roles, role_seq, users>>

\* the rows of user_roles joined with roles for one user
user_role_join(ur, rl, user_id) ==
  {a \in ur : a.user_id = user_id /\ a.role_id \in RoleIds(rl)}

\* the sequences that hold each row of the set rows once, ORDER BY
\* assigned_ts ASC: rows of one assigned_ts come in an order the query does
\* not fix
OrderByAssignedTs(rows) ==
  LET n == Cardinality(rows)
  IN { s \in [1..n -> rows] :
         /\ \A i, j \in 1..n : i # j => s[i] # s[j]
         /\ \A i, j \in 1..n : i < j => s[i].assigned_ts <= s[j].assigned_ts }

\* the role ids of the rows roles_for_user may return, one sequence for each
\* order the query allows
roles_for_user(ur, rl, user_id) ==
  { [i \in 1..Len(s) |-> s[i].role_id] :
      s \in OrderByAssignedTs(user_role_join(ur, rl, user_id)) }

\* the same query with LIMIT 1 and fetchone(): the role ids it may return
primary_role_for_user(ur, rl, user_id) ==
  { IF s = <<>> THEN None ELSE Some(s[1]) : s \in roles_for_user(ur, rl, user_id) }

-----------------------------------------------------------------------------
(* SpecAssign: roles are created and deleted, assigned to and removed from
   users, while the clock moves on *)

\* "a", "b"
AssignRoleNames == { <<97>>, <<98>> }

\* the user roles are assigned to
AssignUsers == {1}

NextAssign ==
  \/ \E name \in AssignRoleNames : create_role(name, <<>>)
  \/ \E user_id \in AssignUsers, role_id \in 1..MaxRoles :
       assign_role_to_user(user_id, role_id, Some(3))
  \/ \E user_id \in AssignUsers, role_id \in 1..MaxRoles :
       remove_role_from_user(user_id, role_id)
  \/ \E role_id \in 1..MaxRoles : delete_role(role_id)
  \/ Tick

SpecAssign == Init /\ [][NextAssign]_vars

\* the roles of made that user_id holds, in the order the assignments were made
MadeFor(user_id) ==
  LET mine == SelectSeq(made, LAMBDA p : p[1] = user_id)
  IN [i \in 1..Len(mine) |-> mine[i][2]]

\* C14: rolesForUser lists a user's roles in the order their current
\* assignments were made, the primary role is the earliest-made current
\* assignment, and assigning a role the user holds changes nothing.
C14_FirstAssignedWins ==
  /\ [](\A u \in AssignUsers :
          /\ roles_for_user(user_roles, roles, u) = {MadeFor(u)}
          /\ primary_role_for_user(user_roles, roles, u)
               = { IF MadeFor(u) = <<>> THEN None ELSE Some(MadeFor(u)[1]) })
  /\ [][ ( /\ last'.op = "assign_role_to_user"
           /\ holds_role(user_roles, last'.user_id, last'.role_id) )
         => /\ last'.res = "ignored"
            /\ user_roles' = user_roles
            /\ made' = made ]_vars

\* C15: every role assignment references an existing role; deleteRole(id)
\* removes the role together with every assignment that references it and
\* leaves all other roles and their assignments unchanged.
C15_DeleteRoleCascades ==
  /\ [](\A a \in user_roles : a.role_id \in RoleIds(roles))
  /\ [][ last'.op = "delete_role"
         => /\ roles' = {r \in roles : r.id # last'.role_id}
            /\ user_roles' = {a \in user_roles : a.role_id # last'.role_id} ]_vars

\* role 1 was deleted while user 1 held it; the assignment went with it and
\* the user still holds role 2
C15_Witness ==
  /\ last.op = "delete_role" /\ last.role_id = 1
  /\ \E a \in last.cascaded : a.user_id = 1 /\ a.role_id = 1
  /\ RoleIds(roles) = {2}
  /\ \E a \in user_roles : a.user_id = 1 /\ a.role_id = 2

-----------------------------------------------------------------------------
(* vote_review, the request that sets a vote *)

\* "You can't vote on your own review."
FlashOwnReview == "You can't vote on your own review."

\* the mutant of vote_review_own: the request layer lets authors through
vote_review_own_unchecked(voter_user_id, review_user_id) == FALSE

\* if voter_user_id == int(review_user_id)
vote_review_own(voter_user_id, review_user_id) == voter_user_id = review_user_id

\* what the request of user uid does to table vt and what it answers
vote_review_result(vt, sh, show_id, review_user_id, uid, vote) ==
  IF vote \notin {1, -1}
  THEN [votes |-> vt, answer |-> "400"]
  ELSE IF vote_review_own(uid, review_user_id)
  THEN [votes |-> vt, answer |-> FlashOwnReview]
  ELSE LET r == set_review_vote_result(vt, sh, show_id, review_user_id, uid, vote)
       IN [votes |-> r.votes,
           answer |-> IF r.res = "ok" THEN "redirect" ELSE r.res]

\* POST /show/<show_id>/review/<review_user_id>/vote by the user uid
vote_review(show_id, review_user_id, uid, vote) ==
  LET r == vote_review_result(votes, shows, show_id, review_user_id, uid, vote)
  IN /\ votes' = r.votes
     /\ last' = [op |-> "vote_review", show_id |-> show_id,
                 review_user_id |-> review_user_id, uid |-> uid,
                 vote |-> vote, answer |-> r.answer]
     /\ UNCHANGED <<shows, ratings, reviews, clock, procs, hist,
                    roles, role_seq, user_roles, made, users>>

-----------------------------------------------------------------------------
(* SpecVoteRequest: users 1 and 2 send vote requests on each other's
   reviews and on their own *)

\* the votes of the form: up, down, and the 0 of a form without a vote
VoteForms == {1, -1, 0}

NextVoteRequest ==
  \/ seed_show
  \/ \E show_id \in 1..MaxShows, review_user_id \in {1, 2}, uid \in {1, 2},
        vote \in VoteForms :
       vote_review(show_id, review_user_id, uid, vote)

SpecVoteRequest == Init /\ [][NextVoteRequest]_vars

\* C16: no stored vote row has the voter as the review's author; a request
\* by a user to vote on a review they authored is refused and leaves the
\* vote ledger unchanged.
C16_NoSelfVote ==
  /\ [](\A r \in votes : r.voter_user_id # r.review_user_id)
  /\ [][ (last'.op = "vote_review" /\ last'.uid = last'.review_user_id)
         => /\ votes' = votes
            /\ last'.answer \in {FlashOwnReview, "400"} ]_vars

\* user 1 asked to vote up their own review of show 1 and was refused,
\* while the ledger holds the vote of user 2 on that review
C16_Witness ==
  /\ last.op = "vote_review" /\ last.uid = 1 /\ last.review_user_id = 1
  /\ last.show_id = 1 /\ last.vote = 1 /\ last.answer = FlashOwnReview
  /\ \E r \in votes : r.show_id = 1 /\ r.review_user_id = 1 /\ r.voter_user_id = 2

-----------------------------------------------------------------------------
(* parse_bulk_lines and bulk_add_post, the bulk import of shows *)

\* the line boundaries of str.splitlines() among the ASCII codes
IsLineBreak(c) == c \in {10, 11, 12, 13, 28, 29, 30}

\* text.splitlines() from position i on, cur being the line read so far;
\* "\r\n" is one boundary and a boundary at the end opens no line
RECURSIVE splitlines_from(_, _, _)
splitlines_from(text, i, cur) ==
  IF i > Len(text) THEN (IF cur = <<>> THEN <<>> ELSE <<cur>>)
  ELSE IF IsLineBreak(text[i])
  THEN LET crlf == text[i] = 13 /\ i < Len(text) /\ text[i + 1] = 10
       IN <<cur>> \o splitlines_from(text, IF crlf THEN i + 2 ELSE i + 1, <<>>)
  ELSE splitlines_from(text, i + 1, Append(cur, text[i]))

splitlines(text) == splitlines_from(text, 1, <<>>)

\* line.split(sep) from position i on, cur being the field read so far
RECURSIVE split_from(_, _, _, _)
split_from(s, sep, i, cur) ==
  IF i > Len(s) THEN <<cur>>
  ELSE IF s[i] = sep THEN <<cur>> \o split_from(s, sep, i + 1, <<>>)
  ELSE split_from(s, sep, i + 1, Append(cur, s[i]))

\* [p.strip() for p in line.split(sep)]
split_strip(s, sep) ==
  LET parts == split_from(s, sep, 1, <<>>)
  IN [k \in 1..Len(parts) |-> Strip(parts[k])]

\* y.isdigit(), for ASCII text
isdigit(y) == y # <<>> /\ \A k \in 1..Len(y) : y[k] \in 48..57

\* int(y) of a text of digits
RECURSIVE int_of_digits(_)
int_of_digits(y) ==
  IF y = <<>> THEN 0
  ELSE 10 * int_of_digits(SubSeq(y, 1, Len(y) - 1)) + (y[Len(y)] - 48)

\* one turn of the loop of parse_bulk_lines, on line i with the text raw:
\* the line is skipped, or gives an item, or gives an error
parse_line(i, raw) ==
  LET line == Strip(raw)
      parts == IF \E k \in 1..Len(line) : line[k] = 124
               THEN split_strip(line, 124) ELSE split_strip(line, 44)
  IN IF line = <<>> \/ line[1] = 35 THEN [kind |-> "skip", line |-> i]
     ELSE IF Len(parts) \notin {3, 4}
     THEN [kind |-> "error", line |-> i, error |-> "expected 3 or 4 fields", got |-> raw]
     ELSE IF ~isdigit(parts[1])
     THEN [kind |-> "error", line |-> i, error |-> "year must be a number", got |-> parts[1]]
     ELSE [kind |-> "item", line |-> i,
           item |-> <<int_of_digits(parts[1]), parts[2], parts[3],
                      IF Len(parts) = 4 THEN Some(parts[4]) ELSE None>>]

\* the lines of text as parse_bulk_lines reads them, numbered from 1
parsed_lines(text) ==
  LET lines == splitlines(text)
  IN [i \in 1..Len(lines) |-> parse_line(i, lines[i])]

\* parse_bulk_lines(text): the items (year, corps, title, poster) and the
\* errors, each with its line number
parse_bulk_lines(text) ==
  LET parsed == parsed_lines(text)
      its == SelectSeq(parsed, LAMBDA p : p.kind = "item")
  IN [items |-> [k \in 1..Len(its) |-> its[k].item],
      errors |-> SelectSeq(parsed, LAMBDA p : p.kind = "error")]

\* the loop of bulk_add_post over the items from the k-th on: the table and
\* the three counters at its end
RECURSIVE bulk_add_loop(_, _, _, _)
bulk_add_loop(sh, items, k, count) ==
  IF k > Len(items) THEN [shows |-> sh] @@ count
  ELSE LET r == add_show_result(sh, items[k][1], items[k][2], items[k][3], items[k][4])
       IN bulk_add_loop(r.shows, items, k + 1,
            IF r.created THEN [count EXCEPT !.inserted = @ + 1]
            ELSE IF r.msg = "Duplicate" THEN [count EXCEPT !.dupes = @ + 1]
            ELSE [count EXCEPT !.other_bad = @ + 1])

\* errors[:10]
FirstTen(errors) == SubSeq(errors, 1, IF Len(errors) > 10 THEN 10 ELSE Len(errors))

\* what bulk_add_post does to table sh and what it flashes
bulk_add_post_result(sh, text) ==
  LET p == parse_bulk_lines(text)
      zero == [inserted |-> 0, dupes |-> 0, other_bad |-> 0]
  IN IF p.errors # <<>>
     THEN [shows |-> sh, flashed |-> FirstTen(p.errors),
           more |-> IF Len(p.errors) > 10 THEN Len(p.errors) - 10 ELSE 0,
           answer |-> "bulk_add"] @@ zero
     ELSE [flashed |-> <<>>, more |-> 0, answer |-> "shows"]
            @@ bulk_add_loop(sh, p.items, 1, zero)

\* POST /admin/bulk_add with the form field bulk_text
bulk_add_post(text) ==
  LET r == bulk_add_post_result(shows, text)
  IN /\ Len(r.shows) <= MaxShows
     /\ shows' = r.shows
     /\ last' = [op |-> "bulk_add_post", text |-> text, flashed |-> r.flashed,
                 more |-> r.more, answer |-> r.answer, inserted |-> r.inserted,
                 dupes |-> r.dupes, other_bad |-> r.other_bad]
     /\ UNCHANGED <<ratings, reviews, votes, clock, procs, hist,
                    roles, role_seq, user_roles, made, users>>

-----------------------------------------------------------------------------
(* SpecBulk: bulk imports, one after the other *)

\* two well-formed lines, one of each separator: "2017,b,a\n2016|b|c"
BulkClean ==
  <<50, 48, 49, 55, 44, 98, 44, 97, 10, 50, 48, 49, 54, 124, 98, 124, 99>>

\* a well-formed line, then a line of one field: "2017,b,a\nx"
BulkWrongCount ==
  <<50, 48, 49, 55, 44, 98, 44, 97, 10, 120>>

\* a line with the year y, then a well-formed line: "y,b,c\n2017,b,a"
BulkBadYear ==
  <<121, 44, 98, 44, 99, 10, 50, 48, 49, 55, 44, 98, 44, 97>>

\* a comment, a blank line, a line with a poster, the same show again: "# c\n\n2017,b,a, p \r\n2017,b,A"
BulkPoster ==
  <<35, 32, 99, 10, 10, 50, 48, 49, 55, 44, 98, 44, 97, 44, 32, 112, 32, 13, 10, 50, 48, 49, 55, 44, 98, 44, 65>>

\* a line without a corps, then a well-formed line: "2017,,a\n2016,b,a"
BulkNoCorps ==
  <<50, 48, 49, 55, 44, 44, 97, 10, 50, 48, 49, 54, 44, 98, 44, 97>>

\* a well-formed line, a line without a year, a line of two fields: "2016|b|c\n,b,a\n1,2"
BulkTwoErrors ==
  <<50, 48, 49, 54, 124, 98, 124, 99, 10, 44, 98, 44, 97, 10, 49, 44, 50>>

\* eleven lines of one field each
BulkElevenErrors == [k \in 1..22 |-> IF k % 2 = 1 THEN 120 ELSE 10]

\* texts of one well-formed line: "2017,b,a", "2016|b|c", "2017,b,c, p",
\* "2016,b,a"
BulkSingles ==
  { <<50, 48, 49, 55, 44, 98, 44, 97>>,
    <<50, 48, 49, 54, 124, 98, 124, 99>>,
    <<50, 48, 49, 55, 44, 98, 44, 99, 44, 32, 112>>,
    <<50, 48, 49, 54, 44, 98, 44, 97>> }

BulkTexts ==
  { BulkClean, BulkWrongCount, BulkBadYear, BulkPoster, BulkNoCorps, BulkTwoErrors,
    BulkElevenErrors, <<>> } \cup BulkSingles

NextBulk == \E text \in BulkTexts : bulk_add_post(text)

SpecBulk == Init /\ [][NextBulk]_vars

\* the items of a text that addShow accepts: corps and title are not blank
WellFormedItems(text) ==
  LET items == parse_bulk_lines(text).items
  IN { items[k] : k \in { j \in 1..Len(items) :
                            Strip(items[j][2]) # <<>> /\ Strip(items[j][3]) # <<>> } }

\* C17: after a bulk import every well-formed line of its text is a stored
\* show (inserted by it or a duplicate of a stored one), whatever other
\* lines the text holds, and every malformed line is reported with its
\* line number.
C17_BulkKeepsGoing ==
  [][ last'.op = "bulk_add_post"
      => LET p == parse_bulk_lines(last'.text)
         IN /\ \A it \in WellFormedItems(last'.text) :
                 \E i \in ShowIds(shows') :
                   shows'[i].norm_key = norm_key(it[1], Strip(it[2]), Strip(it[3]))
            /\ \A k \in 1..Len(p.errors) :
                 \E j \in 1..Len(last'.flashed) : last'.flashed[j] = p.errors[k] ]_vars

-----------------------------------------------------------------------------
(* list_reviews_for_show *)

\* the mutant of my_vote: COALESCE((SELECT v.vote ...), 0), no row reads as 0
my_vote_coalesce_zero(vt, show_id, user_id, viewer_user_id) ==
  IF ~viewer_user_id.some THEN Some(0)
  ELSE LET cur == vote_select(vt, show_id, user_id, viewer_user_id.v)
       IN IF cur.some THEN cur ELSE Some(0)

\* (SELECT v.vote FROM review_votes v WHERE v.show_id = rv.show_id AND
\* v.review_user_id = rv.user_id AND v.voter_user_id = ?) AS my_vote;
\* a viewer of NULL equals no voter
my_vote(vt, show_id, user_id, viewer_user_id) ==
  IF ~viewer_user_id.some THEN None
  ELSE vote_select(vt, show_id, user_id, viewer_user_id.v)

\* the columns of the role with the id role (None when the user has none)
role_column(rl, role, name_or_color) ==
  IF ~role.some THEN None
  ELSE LET r == CHOOSE x \in rl : x.id = role.v
       IN IF name_or_color = "name" THEN Some(r.name) ELSE r.color

\* the rows the SELECT may give for the review r: the two scalar subqueries
\* on user_roles each take a first row by assigned_ts
review_list_rows(r, rt, vt, ur, rl, viewer_user_id) ==
  { [review_text |-> r.review_text, ts |-> r.ts, user_id |-> r.user_id,
     username |-> r.user_id,
     rating_half |-> user_rating_for_show(rt, r.show_id, r.user_id),
     role_name |-> role_column(rl, pn, "name"),
     role_color |-> role_column(rl, pc, "color"),
     vote_score |-> vote_score(vt, r.show_id, r.user_id),
     my_vote |-> my_vote(vt, r.show_id, r.user_id, viewer_user_id)]
    : pn \in primary_role_for_user(ur, rl, r.user_id),
      pc \in primary_role_for_user(ur, rl, r.user_id) }

\* FROM reviews rv JOIN users u ... WHERE rv.show_id = ? ORDER BY rv.ts DESC
\* LIMIT ?: the reviews in the orders the query allows, cut at the limit
reviews_by_ts_desc(rv, show_id, limit) ==
  LET part == {r \in rv : r.show_id = show_id /\ r.user_id \in Users}
      n == Cardinality(part)
  IN { Limit(o, limit) :
         o \in { s \in [1..n -> part] :
                   /\ \A i, j \in 1..n : i # j => s[i] # s[j]
                   /\ \A i, j \in 1..n : i < j => s[i].ts >= s[j].ts } }

\* the results list_reviews_for_show may return
list_reviews_for_show(rv, rt, vt, ur, rl, show_id, viewer_user_id, limit) ==
  LET part == {r \in rv : r.show_id = show_id}
      all == UNION {review_list_rows(r, rt, vt, ur, rl, viewer_user_id) : r \in part}
  IN UNION { { s \in [1..Len(o) -> all] :
                 \A i \in 1..Len(o) :
                   s[i] \in review_list_rows(o[i], rt, vt, ur, rl, viewer_user_id) }
             : o \in reviews_by_ts_desc(rv, show_id, limit) }

-----------------------------------------------------------------------------
(* SpecListReviews: users 1 and 2 review show 1, users 2 and 3 send vote
   requests on those reviews *)

NextListReviews ==
  \/ seed_show
  \/ Tick
  \/ \E user_id \in {1, 2} : upsert_review(1, user_id, <<120>>)
  \/ \E review_user_id \in {1, 2}, uid \in {2, 3}, vote \in {1, -1} :
       vote_review(1, review_user_id, uid, vote)

SpecListReviews == Init /\ [][NextListReviews]_vars

\* the viewers of a show page: nobody logged in, or one of the users
Viewers == {None} \cup {Some(u) : u \in Users}

\* the limits of the listing: one row, and the 30 of the show page
ListLimits == {1, 30}

\* the results of the listing of show_id for the viewer v
Listing(show_id, v, limit) ==
  list_reviews_for_show(reviews, ratings, votes, user_roles, roles, show_id, v, limit)

\* C18: every row listReviewsForShow returns carries as vote_score the
\* number of stored +1 votes minus the number of stored -1 votes on that
\* review and as my_vote the viewer's stored vote on it, +1 or -1, or
\* nothing when the viewer has no vote row; my_vote is never 0.
C18_ScoreAndMyVote ==
  \A show_id \in ShowIds(shows), v \in Viewers, limit \in ListLimits :
    \A s \in Listing(show_id, v, limit) :
      \A i \in 1..Len(s) :
        LET mine == IF v.some THEN VoteRows(votes, show_id, s[i].user_id, v.v) ELSE {}
        IN /\ \E r \in reviews : r.show_id = show_id /\ r.user_id = s[i].user_id
           /\ s[i].vote_score = Score(show_id, s[i].user_id)
           /\ mine = {} => s[i].my_vote = None
           /\ mine # {} => /\ s[i].my_vote.some
                           /\ \E r \in mine : r.vote = s[i].my_vote.v
           /\ s[i].my_vote.some => s[i].my_vote.v \in {1, -1}

\* show 1 lists two reviews for user 3: that of user 1 with the score 2 and
\* the viewer's +1, that of user 2 with the score -1 and the viewer's -1;
\* for user 1, who has voted on neither, both rows come without a vote
C18_Witness ==
  /\ \E s \in Listing(1, Some(3), 30) :
       /\ Len(s) = 2
       /\ \E i, j \in 1..2 :
            /\ s[i].user_id = 1 /\ s[i].vote_score = 2 /\ s[i].my_vote = Some(1)
            /\ s[j].user_id = 2 /\ s[j].vote_score = -1 /\ s[j].my_vote = Some(-1)
  /\ \E s \in Listing(1, Some(1), 30) :
       Len(s) = 2 /\ \A i \in 1..2 : s[i].my_vote = None
  /\ \A s \in Listing(1, None, 1) : Len(s) = 1 /\ s[1].my_vote = None

-----------------------------------------------------------------------------
(* SpecErrors: the mutating calls with inputs that pass and inputs that
   fail, on a store that holds rows of every table *)

\* "a", "b", ""
ErrorNames == { <<97>>, <<98>>, <<>> }

\* "x", "", and a text of one character more than the limit
ErrorReviewTexts == { <<120>>, <<>>, Repeat(97, MaxReviewChars + 1) }

NextErrors ==
  \/ \E title \in ErrorNames : add_show(2017, <<99>>, title, None)
  \/ \E show_id \in 1..MaxShows, title \in ErrorNames :
       update_show(show_id, 2017, <<99>>, title, None)
  \/ \E review_text \in ErrorReviewTexts : upsert_review(1, 1, review_text)
  \/ \E name \in ErrorNames : create_role(name, <<>>)
  \/ \E role_id \in 1..MaxRoles, name \in {<<97>>, <<>>} :
       update_role(role_id, name, <<>>)
  \/ upsert_rating(1, 1, 9)
  \/ vote_review(1, 1, 2, 1)
  \/ assign_role_to_user(1, 1, None)

SpecErrors == Init /\ [][NextErrors]_vars

\* the call that l records ended in a validation or conflict error
EndedInError(l) ==
  \/ l.op = "add_show" /\ l.msg = "Missing corps or title."
  \/ l.op = "update_show"
       /\ l.res \in {"ValueError: missing", "ValueError: duplicate", "IntegrityError"}
  \/ l.op = "upsert_review"
       /\ l.res \in {"ValueError: Review cannot be empty.",
                     "ValueError: Review is too long (max 5000 chars)."}
  \/ l.op \in {"create_role", "update_role"}
       /\ l.res \in {"ValueError: Role name is required.", "IntegrityError"}

\* the call that l records was given the input the error is about
BadInput(l) ==
  \/ l.op \in {"add_show", "update_show"} /\ Strip(l.title) = <<>>
  \/ l.op = "update_show" /\ l.show_id \in ShowIds(shows)
       /\ \E i \in ShowIds(shows) :
            i # l.show_id
            /\ shows[i].norm_key = norm_key(l.year, Strip(l.corps), Strip(l.title))
  \/ l.op = "upsert_review"
       /\ (Strip(l.review_text) = <<>> \/ Len(Strip(l.review_text)) > MaxReviewChars)
  \/ l.op \in {"create_role", "update_role"} /\ Strip(l.name) = <<>>
  \/ l.op = "create_role" /\ \E r \in roles : r.name = Strip(l.name)
  \/ l.op = "update_role" /\ l.role_id \in RoleIds(roles)
       /\ \E r \in roles : r.id # l.role_id /\ r.name = Strip(l.name)

\* C19: a call of addShow, updateShow, upsertReview, createRole or
\* updateRole with empty corps or title, a norm_key another show holds, an
\* empty or over-long review text, or an empty or taken role name ends in
\* its error, and whenever one of them ends in a validation or conflict
\* error the stored shows, ratings, reviews, votes, roles and assignments
\* are as they were before the call.
C19_NoPartialWrite ==
  [][ /\ BadInput(last') => EndedInError(last')
      /\ EndedInError(last')
           => UNCHANGED <<shows, ratings, reviews, votes, roles, user_roles>> ]_vars

\* an edit of show 2 to the title of show 1 has just ended in the duplicate
\* error, on a store that holds rows of all six tables
C19_Witness ==
  /\ last.op = "update_show" /\ last.res = "ValueError: duplicate"
  /\ last.show_id = 2 /\ Len(shows) = 2
  /\ ratings # {} /\ reviews # {} /\ votes # {} /\ roles # {} /\ user_roles # {}

-----------------------------------------------------------------------------
(* SpecPoster: shows are added again, with and without posters *)

\* "a", "A ", "b"
PosterTitles == { <<97>>, <<65, 32>>, <<98>> }

\* no poster, " ", "p", " q "
PosterInputs == { None, Some(<<32>>), Some(<<112>>), Some(<<32, 113, 32>>) }

NextPoster ==
  \E title \in PosterTitles, poster_url \in PosterInputs :
    add_show(2017, <<99>>, title, poster_url)

SpecPoster == Init /\ [][NextPoster]_vars

\* the text x holds a poster: it is there and not blank
HasPoster(x) == x.some /\ Strip(x.v) # <<>>

\* C20: an addShow that hits an existing norm_key inserts no row and
\* changes nothing in the store except, when the existing show has no
\* poster_url and the caller supplied a non-empty one, that show's
\* poster_url; a poster_url that is there is never overwritten, and the
\* show's title, corps, year and norm_key stay as they are.
C20_DuplicateBackfillsPoster ==
  [][ ( /\ last'.op = "add_show"
        /\ Strip(last'.corps) # <<>> /\ Strip(last'.title) # <<>>
        /\ \E i \in ShowIds(shows) :
             shows[i].norm_key
               = norm_key(last'.year, Strip(last'.corps), Strip(last'.title)) )
      => LET id == CHOOSE i \in ShowIds(shows) :
                     shows[i].norm_key
                       = norm_key(last'.year, Strip(last'.corps), Strip(last'.title))
             backfill == ~HasPoster(shows[id].poster_url) /\ HasPoster(last'.poster_url)
         IN /\ ~last'.created /\ last'.id = id
            /\ Len(shows') = Len(shows)
            /\ \A i \in ShowIds(shows) : i # id => shows'[i] = shows[i]
            /\ shows'[id].title = shows[id].title
            /\ shows'[id].corps = shows[id].corps
            /\ shows'[id].year = shows[id].year
            /\ shows'[id].norm_key = shows[id].norm_key
            /\ backfill => /\ shows'[id].poster_url = Some(Strip(last'.poster_url.v))
                           /\ last'.msg = "Duplicate (poster updated)"
            /\ ~backfill => /\ shows'[id].poster_url = shows[id].poster_url
                            /\ last'.msg = "Duplicate"
            /\ UNCHANGED <<ratings, reviews, votes, roles, user_roles>> ]_vars

\* the show "a" was added without a poster, then again as "A " with the
\* poster " q ", which it now holds as "q"; the second show holds "p" and
\* the last call, which brought " q " for it, left that poster alone
C20_Witness ==
  /\ Len(shows) = 2
  /\ shows[1].title = <<97>> /\ shows[1].poster_url = Some(<<113>>)
  /\ shows[2].title = <<98>> /\ shows[2].poster_url = Some(<<112>>)
  /\ last.op = "add_show" /\ last.title = <<98>>
  /\ last.poster_url = Some(<<32, 113, 32>>) /\ last.msg = "Duplicate" /\ last.id = 2

-----------------------------------------------------------------------------
(* set_review_vote on two connections: its SELECT and its write are two
   statements, and the other connection may run between them *)

\* the mutant of vote_primary_key_free: the table has no primary key
vote_primary_key_free_always(vt, show_id, review_user_id, voter_user_id) == TRUE

\* PRIMARY KEY (show_id, review_user_id, voter_user_id): an INSERT of the
\* key passes
vote_primary_key_free(vt, show_id, review_user_id, voter_user_id) ==
  VoteRows(vt, show_id, review_user_id, voter_user_id) = {}

\* set_review_vote up to its SELECT, lines 598-610: the connection holds
\* the vote asked for and the row it read
set_review_vote_begin(p, show_id, review_user_id, voter_user_id, vote) ==
  /\ procs[p].pc = "idle"
  /\ procs' = [procs EXCEPT ![p] =
                 [pc |-> "vote_write", show_id |-> show_id,
                  review_user_id |-> review_user_id,
                  voter_user_id |-> voter_user_id,
                  vote |-> IF vote > 0 THEN 1 ELSE -1,
                  cur |-> vote_select(votes, show_id, review_user_id, voter_user_id)]]
  /\ UNCHANGED <<shows, ratings, reviews, votes, clock, last, hist,
                 roles, role_seq, user_roles, made, users>>

\* the statement set_review_vote chose from the row it read, lines 612-638,
\* run on the table as it is now: the INSERT fails on a key that is taken
\* or on a foreign key, the DELETE and the UPDATE write the rows of the key
\* that are there
set_review_vote_write(p) ==
  LET q == procs[p]
      key == <<q.show_id, q.review_user_id, q.voter_user_id>>
      mine == VoteRows(votes, q.show_id, q.review_user_id, q.voter_user_id)
  IN /\ q.pc = "vote_write"
     /\ IF ~q.cur.some
        THEN IF /\ vote_primary_key_free(votes, q.show_id, q.review_user_id,
                                         q.voter_user_id)
                /\ vote_foreign_keys(shows, q.show_id, q.review_user_id,
                                     q.voter_user_id)
             THEN /\ votes' = votes \cup {VoteRow(q.show_id, q.review_user_id,
                                                  q.voter_user_id, q.vote)}
                  /\ Done(p, "set_review_vote", TRUE, 0, key, "inserted")
             ELSE /\ votes' = votes
                  /\ Done(p, "set_review_vote", FALSE, 0, key, "IntegrityError")
        ELSE IF q.cur.v = q.vote
        THEN /\ votes' = votes \ mine
             /\ Done(p, "set_review_vote", TRUE, 0, key, "deleted")
        ELSE /\ votes' = (votes \ mine) \cup {[r EXCEPT !.vote = q.vote] : r \in mine}
             /\ Done(p, "set_review_vote", TRUE, 0, key, "updated")
     /\ UNCHANGED <<shows, ratings, reviews, clock, last, hist,
                    roles, role_seq, user_roles, made, users>>

-----------------------------------------------------------------------------
(* SpecVoteRace: users 2 and 3 vote on the review of user 1 of show 1, each
   request on one of two connections *)

NextVoteRace ==
  \/ seed_show
  \/ \E p \in Conns :
       \/ \E voter_user_id \in {2, 3}, vote \in {1, -1} :
            set_review_vote_begin(p, 1, 1, voter_user_id, vote)
       \/ set_review_vote_write(p)
       \/ close(p)

SpecVoteRace == Init /\ [][NextVoteRace]_vars

\* every key of the ledger has no row or one row, with the vote 1 or -1
C21_OneOfThree ==
  \A r \in votes :
    /\ r.vote \in {1, -1}
    /\ VoteRows(votes, r.show_id, r.review_user_id, r.voter_user_id) = {r}

\* the write of a connection changes no row of a key other than its own
C21_OtherKeysKept ==
  \A p \in Conns :
    (procs[p].pc = "vote_write" /\ procs'[p].pc = "done") =>
      LET q == procs[p]
      IN votes \ VoteRows(votes, q.show_id, q.review_user_id, q.voter_user_id)
           = votes' \ VoteRows(votes', q.show_id, q.review_user_id, q.voter_user_id)

\* C21: under any interleaving of two concurrent setVote calls, including
\* both reading the row before either writes, each key ends with no row or
\* with one row whose vote is +1 or -1, and no row of another key changes.
C21_RaceKeepsOneRow == []C21_OneOfThree /\ [][C21_OtherKeysKept]_vars

\* two requests of user 2 both read that the key had no row, one INSERT
\* went through and the other failed on the primary key: the key has the
\* one row of the first, and the vote of user 3 is where it was
C21_Witness ==
  /\ \A p \in Conns :
       /\ procs[p].pc = "done" /\ procs[p].op = "set_review_vote"
       /\ procs[p].key = <<1, 1, 2>>
  /\ {procs[p].msg : p \in Conns} = {"inserted", "IntegrityError"}
  /\ VoteRows(votes, 1, 1, 2) = {VoteRow(1, 1, 2, 1)}
  /\ VoteRows(votes, 1, 1, 3) = {VoteRow(1, 1, 3, -1)}

-----------------------------------------------------------------------------
(* SpecReviewVotes: user 1 writes and deletes a review of show 1, users 2
   and 3 send vote requests on it *)

NextReviewVotes ==
  \/ seed_show
  \/ upsert_review(1, 1, <<120>>)
  \/ delete_review(1, 1)
  \/ \E uid \in {2, 3}, vote \in {1, -1} : vote_review(1, 1, uid, vote)

SpecReviewVotes == Init /\ [][NextReviewVotes]_vars

\* the review of show_id by user_id is stored in table rv
review_exists(rv, show_id, user_id) ==
  \E r \in rv : r.show_id = show_id /\ r.user_id = user_id

\* C22: every stored vote row refers to a review that exists for its
\* (show, review author) pair: a vote request on a pair without a review
\* stores nothing, and a review written where none was stored starts with
\* the vote_score 0.
C22_VotesHaveReviews ==
  /\ [](\A v \in votes : review_exists(reviews, v.show_id, v.review_user_id))
  /\ [][ ( /\ last'.op = "vote_review"
           /\ ~review_exists(reviews, last'.show_id, last'.review_user_id) )
         => votes' = votes ]_vars
  /\ [][ ( /\ last'.op = "upsert_review" /\ last'.res = "ok"
           /\ ~review_exists(reviews, last'.show_id, last'.user_id) )
         => vote_score(votes', last'.show_id, last'.user_id) = 0 ]_vars

-----------------------------------------------------------------------------
(* register_post: user_by_username, is_first_user and create_user are three
   statements of one request, and another connection may run between them *)

UserRow(id, username, is_admin) ==
  [id |-> id, username |-> username, is_admin |-> is_admin]

\* SELECT * FROM users WHERE username = ?  -> a row was found
user_by_username(us, username) ==
  \E u \in us : u.username = Strip(username)

\* SELECT COUNT(*) AS n FROM users; int(row["n"]) == 0
is_first_user(us) == Cardinality(us) = 0

\* schema.sql is not among the sources: the specification has usernames
\* unique as stored, which the INSERT of create_user then enforces
users_username_unique(us, username) ==
  \A u \in us : u.username # username

\* register_post up to user_by_username, lines 157-170
register_post_begin(p, username, password) ==
  LET name == Strip(username)
      word == Strip(password)
  IN /\ procs[p].pc = "idle"
     /\ IF Len(name) < 3
        THEN Done(p, "register_post", FALSE, 0, name,
                  "Username must be at least 3 characters.")
        ELSE IF Len(word) < 6
        THEN Done(p, "register_post", FALSE, 0, name,
                  "Password must be at least 6 characters.")
        ELSE IF user_by_username(users, name)
        THEN Done(p, "register_post", FALSE, 0, name, "That username is taken.")
        ELSE procs' = [procs EXCEPT ![p] = [pc |-> "reg_first", username |-> name]]
     /\ UNCHANGED <<shows, ratings, reviews, votes, clock, last, hist,
                    roles, role_seq, user_roles, made, users>>

\* make_admin = dbx.is_first_user(conn), line 172
register_post_is_first(p) ==
  /\ procs[p].pc = "reg_first"
  /\ procs' = [procs EXCEPT ![p] =
                 [pc |-> "reg_create", username |-> procs[p].username,
                  make_admin |-> is_first_user(users)]]
  /\ UNCHANGED <<shows, ratings, reviews, votes, clock, last, hist,
                 roles, role_seq, user_roles, made, users>>

\* uid = dbx.create_user(conn, username, hash, make_admin=make_admin),
\* line 173: the INSERT with is_admin = 1 if make_admin else 0
register_post_create(p) ==
  LET q == procs[p]
      uid == Cardinality(users) + 1
  IN /\ q.pc = "reg_create"
     /\ IF users_username_unique(users, q.username)
        THEN /\ Cardinality(users) < MaxUsers
             /\ users' = users \cup {UserRow(uid, q.username, q.make_admin)}
             /\ Done(p, "register_post", TRUE, uid, q.username,
                     IF q.make_admin THEN "First user created: you are admin"
                     ELSE "Account created.")
        ELSE /\ users' = users
             /\ Done(p, "register_post", FALSE, 0, q.username, "IntegrityError")
     /\ UNCHANGED <<shows, ratings, reviews, votes, clock, last, hist,
                    roles, role_seq, user_roles, made>>

-----------------------------------------------------------------------------
(* SpecRegister: registration requests on two connections *)

\* "ann", "bob", " al "
RegisterNames == { <<97, 110, 110>>, <<98, 111, 98>>, <<32, 97, 108, 32>> }

\* "secret", "pw"
RegisterPasswords == { <<115, 101, 99, 114, 101, 116>>, <<112, 119>> }

NextRegister ==
  \E p \in Conns :
    \/ \E username \in RegisterNames, password \in RegisterPasswords :
         register_post_begin(p, username, password)
    \/ register_post_is_first(p)
    \/ register_post_create(p)
    \/ close(p)

SpecRegister == Init /\ [][NextRegister]_vars

\* C23: under any interleaving of registration requests exactly one user,
\* the first one created, is made admin by registration.
C23_OneAdmin ==
  \A u \in users : u.is_admin <=> u.id = 1

====
